---- MODULE Spec2Model ----
(***************************************************************************)
(* Model of the pseudonymisation engine of kinetic-pseudonimisering:       *)
(*   src/app.py            class Pseudonimiseerder, valideer_bsn,          *)
(*                         parse_datum                                      *)
(*   src/pseudonymizer.py  class MedicalPseudonymizer                      *)
(*                                                                         *)
(* Texts are sequences of one-character strings; in the documents of       *)
(* SpecRun a number, a keyword and a fixed label are one piece each.       *)
(* Every component of the engine has its own specification over the        *)
(* shared variables:                                                       *)
(*   SpecBsn       the national-ID paths and the 11-check                  *)
(*   SpecResolver  the sort-and-filter pass over candidate spans           *)
(*   SpecRegistry  the two pseudonym registries                            *)
(*   SpecDatum     the date normaliser                                     *)
(*   SpecRun       whole runs of the two entry points on one object, on    *)
(*                 documents of names and dates; SpecMisvormd and          *)
(*                 SpecNamen are the same runs on documents of numbers and *)
(*                 non-dates, and of names in several capitalisations      *)
(*   SpecJaar      the same runs on documents of dates with two-digit years *)
(*   SpecOverlap   the runs of a Pseudonimiseerder on documents with names *)
(*                 of three words, whose candidates overlap                *)
(*   SpecSchade    the same runs on documents of dates behind the incident *)
(*                 keywords "ongeval" and "schade"                         *)
(*   SpecContact   the contact detector on texts of digits and separators, *)
(*                 followed by the sort-and-filter pass                    *)
(***************************************************************************)
EXTENDS Integers, Sequences, FiniteSets, TLC

VARIABLES
    \* --- SpecBsn
    kandidaat,        \* the text handed to the national-ID code
    geldig,           \* <<>> or <<b>>: what valideer_bsn(kandidaat) returned
    contact_gevonden, \* labels _detecteer_contact returned for kandidaat
    bsn_resultaat,    \* <<>> or <<text>>: what _replace_bsn returned
    bsn_pc,           \* "start" | "valideer" | "contact" | "replace"
    \* --- SpecResolver
    tekst,             \* the text pseudonimiseer works on
    alle_vervangingen, \* candidate spans <<start, eind, origineel, label>>
    gefilterd,         \* the accepted spans, in the order the filter took them
    resultaat,         \* the text after the replacements
    res_pc,            \* "scan" | "verzamel" | "klaar"
    \* --- the engine object (SpecRegistry, SpecRun)
    engine,            \* the class of the object: "Pseudonimiseerder" | "MedicalPseudonymizer"
    naam_mapping,      \* Pseudonimiseerder._naam_mapping
    tellers,           \* Pseudonimiseerder._tellers
    name_mapping,      \* MedicalPseudonymizer.name_mapping
    name_counter,      \* MedicalPseudonymizer.name_counter
    gebruik_relatieve_datums, \* Pseudonimiseerder.gebruik_relatieve_datums
    referentie_datum,  \* Pseudonimiseerder.referentie_datum (Geen for None)
    gevonden_datums,   \* Pseudonimiseerder._gevonden_datums
    incident_date,     \* MedicalPseudonymizer.incident_date (Geen for None)
    statistieken,      \* Pseudonimiseerder.statistieken
    waarschuwingen,    \* Pseudonimiseerder.waarschuwingen
    statistics,        \* MedicalPseudonymizer.statistics
    warnings,          \* MedicalPseudonymizer.warnings
    set_volgorde,      \* the iteration order of the set VOORNAMEN in this process
    \* --- SpecRun: the calls of the entry point on the object
    meegegeven,        \* the reference date given to the constructor (Geen for None)
    runs,              \* number of calls of the entry point so far
    document,          \* the text of the last call
    uitvoer,           \* the text the last call returned
    bij_start,         \* the per-run fields as the last call's detectors found them
    alfabet,           \* the tokens that the documents of the calls are made of
    \* --- SpecDatum
    datum_arg,         \* the argument of _datum_naar_relatief
    datum_label,       \* <<>> or <<label>>: what it returned
    \* --- history of the registry lookups (SpecRegistry)
    opgevraagd,        \* {<<name as the specification normalises it, label returned>>}
    volgorde           \* those names in the order of their first lookup

bsn_vars == <<kandidaat, geldig, contact_gevonden, bsn_resultaat, bsn_pc>>
res_vars == <<tekst, alle_vervangingen, gefilterd, resultaat, res_pc>>

reg_vars == <<naam_mapping, tellers, name_mapping, name_counter>>
hist_vars == <<opgevraagd, volgorde>>
dat_vars == <<gebruik_relatieve_datums, referentie_datum, gevonden_datums, incident_date>>
arg_vars == <<datum_arg, datum_label>>
stat_vars == <<statistieken, waarschuwingen, statistics, warnings, set_volgorde>>
run_vars == <<meegegeven, runs, document, uitvoer, bij_start, alfabet>>

vars == <<bsn_vars, res_vars, engine, reg_vars, hist_vars, dat_vars, arg_vars,
          stat_vars, run_vars>>

\* what an action of one component leaves alone
BuitenBsn == UNCHANGED <<res_vars, engine, reg_vars, hist_vars, dat_vars, arg_vars,
                         stat_vars, run_vars>>
BuitenRes == UNCHANGED <<bsn_vars, engine, reg_vars, hist_vars, dat_vars, arg_vars,
                         stat_vars, run_vars>>
BuitenReg == UNCHANGED <<bsn_vars, res_vars, dat_vars, arg_vars, stat_vars, run_vars>>
BuitenDatum == UNCHANGED <<bsn_vars, res_vars, reg_vars, hist_vars, stat_vars, run_vars>>
BuitenRun == UNCHANGED <<bsn_vars, res_vars, hist_vars, arg_vars>>

----------------------------------------------------------------------------
(* Characters and small helpers                                            *)

DigitChars == {"0", "1", "2", "3", "4", "5", "6", "7", "8", "9"}

\* int(c) for a decimal digit character
IntOf(c) ==
    CASE c = "0" -> 0 [] c = "1" -> 1 [] c = "2" -> 2 [] c = "3" -> 3
      [] c = "4" -> 4 [] c = "5" -> 5 [] c = "6" -> 6 [] c = "7" -> 7
      [] c = "8" -> 8 [] c = "9" -> 9

\* str.isdigit(): non-empty and every character a digit
IsDigit(s) == Len(s) > 0 /\ \A i \in 1..Len(s) : s[i] \in DigitChars

AllDigits(s, from, to) == \A i \in from..to : s[i] \in DigitChars

Min2(a, b) == IF a <= b THEN a ELSE b

\* the digits of a text, separators dropped
RECURSIVE DigitsOf(_)
DigitsOf(s) ==
    IF s = <<>> THEN <<>>
    ELSE (IF Head(s) \in DigitChars THEN <<Head(s)>> ELSE <<>>) \o DigitsOf(Tail(s))

----------------------------------------------------------------------------
(* valideer_bsn, src/app.py:167-173                                        *)

gewichten == <<9, 8, 7, 6, 5, 4, 3, 2, -1>>

\* sum(int(c) * w for c, w in zip(bsn, gewichten)): zip stops at the shorter
RECURSIVE SomZip(_, _)
SomZip(bsn, w) ==
    IF bsn = <<>> \/ w = <<>> THEN 0
    ELSE IntOf(Head(bsn)) * Head(w) + SomZip(Tail(bsn), Tail(w))

\* mutant: the `som != 0` test is dropped
valideer_bsn_zonder_nul(bsn) ==
    IF ~IsDigit(bsn) \/ Len(bsn) # 9 THEN FALSE
    ELSE SomZip(bsn, gewichten) % 11 = 0

valideer_bsn(bsn) ==
    IF ~IsDigit(bsn) \/ Len(bsn) # 9 THEN FALSE
    ELSE LET som == SomZip(bsn, gewichten)
         IN  som % 11 = 0 /\ som # 0

----------------------------------------------------------------------------
(* The patterns of the national-ID and phone code, applied to a text that  *)
(* holds one candidate and nothing else (so \b and the lookarounds hold at *)
(* both ends and a match, if any, is the whole text).                      *)

\* PIIPatterns.BSN  \b(\d{9})\b   and   (?<!\d)(\d{9})(?!\d)
MatchNegenCijfers(s) == Len(s) = 9 /\ AllDigits(s, 1, 9)

\* \b(\d{4}[.\s]\d{2}[.\s]\d{3})\b
MatchBsn423(s) ==
    /\ Len(s) = 11
    /\ AllDigits(s, 1, 4) /\ s[5] \in {".", " "}
    /\ AllDigits(s, 6, 7) /\ s[8] \in {".", " "}
    /\ AllDigits(s, 9, 11)

\* \b(\d{3}[.\-]\d{3}[.\-]\d{3})\b
MatchBsn333(s) ==
    /\ Len(s) = 11
    /\ AllDigits(s, 1, 3) /\ s[4] \in {".", "-"}
    /\ AllDigits(s, 5, 7) /\ s[8] \in {".", "-"}
    /\ AllDigits(s, 9, 11)

\* PIIPatterns.MOBIEL on a text of digits only: 0 6 dd dd dd dd
MatchMobiel(s) ==
    /\ IsDigit(s) /\ Len(s) = 10 /\ s[1] = "0" /\ s[2] = "6"

\* PIIPatterns.TELEFOON on a text of digits only:
\* 0 [1-9]\d{1,2} (\d{2,3}){2,3} \d{2}, i.e. 9 to 15 digits
MatchTelefoon(s) ==
    /\ IsDigit(s) /\ Len(s) >= 9 /\ Len(s) <= 15
    /\ s[1] = "0" /\ s[2] # "0"

----------------------------------------------------------------------------
(* Pseudonimiseerder._detecteer_contact, src/app.py:409-432, on a text     *)
(* holding one candidate: the labels of the list `gevonden` it returns.    *)

DetecteerContactLabels(s) ==
    LET bsn == IF MatchNegenCijfers(s) /\ valideer_bsn(s) THEN <<"[BSN]">> ELSE <<>>
        \* al_gevonden: the candidate starts inside a span found before
        mobiel == IF MatchMobiel(s) /\ bsn = <<>> THEN <<"[TELEFOON]">> ELSE <<>>
        telefoon == IF MatchTelefoon(s) /\ bsn \o mobiel = <<>>
                    THEN <<"[TELEFOON]">> ELSE <<>>
    IN  bsn \o mobiel \o telefoon

(* MedicalPseudonymizer._replace_bsn, src/pseudonymizer.py:105-120: the    *)
(* three patterns one after the other, every match replaced by [BSN].      *)
ReplaceBsnTekst(s) ==
    LET r1 == IF MatchBsn423(s) THEN <<"[BSN]">> ELSE s
        r2 == IF MatchNegenCijfers(r1) THEN <<"[BSN]">> ELSE r1
        r3 == IF MatchBsn333(r2) THEN <<"[BSN]">> ELSE r2
    IN  r3

----------------------------------------------------------------------------
(* SpecBsn: one candidate text, then one of the three entry points.        *)

MaxSuffix == 2

BsnPrefixes ==
    { <<"1","2","3","4","5","6","7">>, <<"1","2","3","4","5","6">>,
      <<"1","2","3","4","5","6","7","8">>, <<"0","0","0","0","0","0","0">>,
      <<"1","1","1","2","2","2","3">>, <<"0","6","1","2","3","4","5","6">> }

PlainKandidaten ==
    { p \o q : p \in BsnPrefixes,
               q \in UNION { [1..k -> DigitChars] : k \in 0..MaxSuffix } }

Groepeer423(s, sep) == SubSeq(s, 1, 4) \o <<sep>> \o SubSeq(s, 5, 6) \o <<sep>> \o SubSeq(s, 7, 9)
Groepeer333(s, sep) == SubSeq(s, 1, 3) \o <<sep>> \o SubSeq(s, 4, 6) \o <<sep>> \o SubSeq(s, 7, 9)

GroepKandidaten ==
    { Groepeer423(s, ".") : s \in { t \in PlainKandidaten : Len(t) = 9 /\ t[9] \in {"2", "9"} } }
    \cup
    { Groepeer333(s, "-") : s \in { t \in PlainKandidaten : Len(t) = 9 /\ t[9] \in {"2", "9"} } }

Kandidaten == PlainKandidaten \cup GroepKandidaten

BsnIdle ==
    /\ kandidaat = <<>> /\ geldig = <<>> /\ contact_gevonden = <<>>
    /\ bsn_resultaat = <<>> /\ bsn_pc = "idle"

BsnStart ==
    /\ kandidaat \in Kandidaten
    /\ geldig = <<>> /\ contact_gevonden = <<>> /\ bsn_resultaat = <<>>
    /\ bsn_pc = "start"

ValideerBsn ==
    /\ bsn_pc = "start"
    /\ geldig' = <<valideer_bsn(kandidaat)>>
    /\ bsn_pc' = "valideer"
    /\ UNCHANGED <<kandidaat, contact_gevonden, bsn_resultaat>>
    /\ BuitenBsn

DetecteerContact ==
    /\ bsn_pc = "start"
    /\ contact_gevonden' = DetecteerContactLabels(kandidaat)
    /\ bsn_pc' = "contact"
    /\ UNCHANGED <<kandidaat, geldig, bsn_resultaat>>
    /\ BuitenBsn

ReplaceBsn ==
    /\ bsn_pc = "start"
    /\ bsn_resultaat' = <<ReplaceBsnTekst(kandidaat)>>
    /\ bsn_pc' = "replace"
    /\ UNCHANGED <<kandidaat, geldig, contact_gevonden>>
    /\ BuitenBsn

BsnNext == ValideerBsn \/ DetecteerContact \/ ReplaceBsn

----------------------------------------------------------------------------
(* The span resolver and the substitution of Pseudonimiseerder.pseudonimiseer, *)
(* src/app.py:450-490.  Offsets are Python's: 0-based, half-open.           *)

Start(v) == v[1]
Eind(v) == v[2]
Label(v) == v[4]

\* the three sort keys of pseudonimiseer:
\*   "start_langste"   key=lambda x: (x[0], -(x[1] - x[0]))     line 451
\*   "start"           key=lambda x: x[0]                       line 455
\*   "start_aflopend"  key=lambda x: x[0], reverse=True         line 462
\* mutant: the first sort key without the length component
VoorZonderLengte(sleutel, a, b) ==
    CASE sleutel = "start_langste" -> Start(a) < Start(b)
      [] sleutel = "start" -> Start(a) < Start(b)
      [] sleutel = "start_aflopend" -> Start(a) > Start(b)

Voor(sleutel, a, b) ==
    CASE sleutel = "start_langste" ->
            \/ Start(a) < Start(b)
            \/ Start(a) = Start(b) /\ -(Eind(a) - Start(a)) < -(Eind(b) - Start(b))
      [] sleutel = "start" -> Start(a) < Start(b)
      [] sleutel = "start_aflopend" -> Start(a) > Start(b)

\* list.sort / sorted are stable: x goes behind every element it is not less than
RECURSIVE VoegIn(_, _, _)
VoegIn(x, lijst, sleutel) ==
    IF lijst = <<>> THEN <<x>>
    ELSE IF Voor(sleutel, x, Head(lijst)) THEN <<x>> \o lijst
    ELSE <<Head(lijst)>> \o VoegIn(x, Tail(lijst), sleutel)

RECURSIVE StabielSorteer(_, _)
StabielSorteer(lijst, sleutel) ==
    IF lijst = <<>> THEN <<>>
    ELSE VoegIn(lijst[Len(lijst)],
                StabielSorteer(SubSeq(lijst, 1, Len(lijst) - 1), sleutel), sleutel)

\* mutant: the cursor is set to the start of the accepted span
RECURSIVE FilterCursorStart(_, _)
FilterCursorStart(lijst, laatste_eind) ==
    IF lijst = <<>> THEN <<>>
    ELSE IF Start(Head(lijst)) >= laatste_eind
         THEN <<Head(lijst)>> \o FilterCursorStart(Tail(lijst), Start(Head(lijst)))
         ELSE FilterCursorStart(Tail(lijst), laatste_eind)

\* the loop of lines 455-459
RECURSIVE FilterOverlap(_, _)
FilterOverlap(lijst, laatste_eind) ==
    IF lijst = <<>> THEN <<>>
    ELSE IF Start(Head(lijst)) >= laatste_eind
         THEN <<Head(lijst)>> \o FilterOverlap(Tail(lijst), Eind(Head(lijst)))
         ELSE FilterOverlap(Tail(lijst), laatste_eind)

\* lines 451-459: sort, sort again by start, filter with laatste_eind = -1
SorteerEnFilter(kandidaten) ==
    FilterOverlap(
        StabielSorteer(StabielSorteer(kandidaten, "start_langste"), "start"), -1)

\* resultaat[:start] + label + resultaat[eind:]
Splice(r, start, eind, label) ==
    SubSeq(r, 1, Min2(start, Len(r))) \o label \o SubSeq(r, eind + 1, Len(r))

\* lines 462-488 without the statistics: right to left over the accepted spans
RECURSIVE VoerUit(_, _)
VoerUit(r, spans) ==
    IF spans = <<>> THEN r
    ELSE VoerUit(Splice(r, Start(Head(spans)), Eind(Head(spans)), Label(Head(spans))),
                 Tail(spans))

\* mutant: the accepted spans applied from the front of the text to the back
VervangOplopend(t, geaccepteerd) ==
    VoerUit(t, StabielSorteer(geaccepteerd, "start"))

Vervang(t, geaccepteerd) ==
    VoerUit(t, StabielSorteer(geaccepteerd, "start_aflopend"))

----------------------------------------------------------------------------
(* SpecResolver: any list of candidate spans over a short text, then the   *)
(* sort-and-filter pass and the substitution.                              *)

TekstLen == 3
MaxKandidaten == 3

Letters == <<"a", "b", "c", "d", "e", "f", "g", "h">>
ResolverTekst == SubSeq(Letters, 1, TekstLen)
ResolverLabels == { <<"[", "X", "]">>, <<"[", "Y", "Z", "]">> }

\* a detector's candidate: 0 <= start < eind <= len(tekst), origineel = tekst[start:eind]
KandidaatSpans(t) ==
    { <<p[1], p[2], SubSeq(t, p[1] + 1, p[2]), l>> :
        p \in { q \in (0..(Len(t) - 1)) \X (1..Len(t)) : q[1] < q[2] },
        l \in ResolverLabels }

ResIdle ==
    /\ tekst = <<>> /\ alle_vervangingen = <<>> /\ gefilterd = <<>>
    /\ resultaat = <<>> /\ res_pc = "idle"

ResStart ==
    /\ tekst = ResolverTekst /\ alle_vervangingen = <<>> /\ gefilterd = <<>>
    /\ resultaat = <<>> /\ res_pc = "verzamel"

\* alle_vervangingen.append / extend
VoegKandidaatToe ==
    /\ res_pc = "verzamel"
    /\ Len(alle_vervangingen) < MaxKandidaten
    /\ \E v \in KandidaatSpans(tekst) :
          alle_vervangingen' = Append(alle_vervangingen, v)
    /\ UNCHANGED <<tekst, gefilterd, resultaat, res_pc>>
    /\ BuitenRes

\* lines 450-490
ResolveEnVervang ==
    /\ res_pc = "verzamel"
    /\ alle_vervangingen' = StabielSorteer(alle_vervangingen, "start_langste")
    /\ gefilterd' = StabielSorteer(SorteerEnFilter(alle_vervangingen), "start_aflopend")
    /\ resultaat' = Vervang(tekst, SorteerEnFilter(alle_vervangingen))
    /\ res_pc' = "klaar"
    /\ UNCHANGED tekst
    /\ BuitenRes

ResNext == VoegKandidaatToe \/ ResolveEnVervang

----------------------------------------------------------------------------
(* Dates.  A datetime at midnight is the record of its year, month and     *)
(* day; Geen stands for None.                                              *)

Geen == [jaar |-> 0, maand |-> 0, dag |-> 0]
Datum(j, m, d) == [jaar |-> j, maand |-> m, dag |-> d]

Schrikkeljaar(j) == j % 4 = 0 /\ (j % 100 # 0 \/ j % 400 = 0)

DagenInMaand(j, m) ==
    CASE m \in {1, 3, 5, 7, 8, 10, 12} -> 31
      [] m \in {4, 6, 9, 11} -> 30
      [] m = 2 -> IF Schrikkeljaar(j) THEN 29 ELSE 28

\* datetime(jaar, maand, dag) raises ValueError unless this holds
GeldigeDatum(j, m, d) ==
    /\ j >= 1 /\ j <= 9999
    /\ m >= 1 /\ m <= 12
    /\ d >= 1 /\ d <= DagenInMaand(j, m)

RECURSIVE DagenVoorMaand(_, _)
DagenVoorMaand(j, m) ==
    IF m <= 1 THEN 0 ELSE DagenInMaand(j, m - 1) + DagenVoorMaand(j, m - 1)

\* datetime.toordinal(): days since 0001-01-01, that day being 1
Ordinaal(dt) ==
    LET j == dt.jaar - 1
    IN  j * 365 + (j \div 4) - (j \div 100) + (j \div 400)
        + DagenVoorMaand(dt.jaar, dt.maand) + dt.dag

\* (a - b).days for two datetimes at midnight
DagenTussen(a, b) == Ordinaal(a) - Ordinaal(b)

\* mutant: the first date of the list instead of the earliest
EersteDatum(lijst) == lijst[1]

\* min() of a non-empty list of datetimes
RECURSIVE MinDatum(_)
MinDatum(lijst) ==
    IF Len(lijst) = 1 THEN lijst[1]
    ELSE LET rest == MinDatum(Tail(lijst))
         IN  IF Ordinaal(rest) < Ordinaal(Head(lijst)) THEN rest ELSE Head(lijst)

Abs(n) == IF n < 0 THEN -n ELSE n

\* mutant: the quotient cut off instead of rounded
RondAf(n, d) == n \div d

\* round(n / d) of Python 3: to the nearest integer, halves to the even one
Rond(n, d) ==
    LET q == n \div d
        r == n % d
    IN  IF 2 * r < d THEN q
        ELSE IF 2 * r > d THEN q + 1
        ELSE IF q % 2 = 0 THEN q ELSE q + 1

\* mutant: the years cut off after the first decimal
KapTienden(n) == (10 * n) \div 365

\* round(n / 365, 1), in tenths (n / 365 is never halfway between two tenths)
RondTienden(n) == (20 * n + 365) \div 730

\* str() of the rounded years: 2.0 has become int 2 (lines 292-293)
JarenTekst(tienden) ==
    IF tienden % 10 = 0 THEN ToString(tienden \div 10)
    ELSE ToString(tienden \div 10) \o "." \o ToString(tienden % 10)

\* lines 241-297 of _datum_naar_relatief: the label for a day difference
\* mutant: the sign is taken from the wrong side
RelatiefLabelTekenOm(delta) ==
    IF delta = 0 THEN <<"[ONGEVAL]">>
    ELSE <<"[", IF delta < 0 THEN "+" ELSE "-", ToString(Abs(delta)), " ", "dagen", "]">>

RelatiefLabel(delta) ==
    IF delta = 0 THEN <<"[ONGEVAL]">>
    ELSE
      LET abs_delta == Abs(delta)
          teken == IF delta > 0 THEN "+" ELSE "-"
          Uit(waarde, eenheid) == <<"[", teken, waarde, " ", eenheid, "]">>
      IN  IF abs_delta = 1 THEN Uit("1", "dag")
          ELSE IF abs_delta < 7 THEN Uit(ToString(abs_delta), "dagen")
          ELSE IF abs_delta < 14 THEN Uit("1", "week")
          ELSE IF abs_delta < 28 THEN
              LET weken == Rond(abs_delta, 7)
              IN  Uit(ToString(weken), IF weken > 1 THEN "weken" ELSE "week")
          ELSE IF abs_delta < 60 THEN
              LET maanden == Rond(abs_delta, 30)
              IN  Uit(ToString(maanden), IF maanden = 1 THEN "maand" ELSE "maanden")
          ELSE IF abs_delta < 365 THEN
              Uit(ToString(Rond(abs_delta, 30)), "maanden")
          ELSE IF abs_delta < 730 THEN
              LET jaren == abs_delta \div 365
                  rest_maanden == Rond(abs_delta % 365, 30)
              IN  IF rest_maanden < 2 THEN Uit(ToString(jaren), "jaar")
                  ELSE <<"[", teken, ToString(jaren), " ", "jaar", ", ",
                         ToString(rest_maanden), " ", "mnd", "]">>
          ELSE Uit(JarenTekst(RondTienden(abs_delta)), "jaar")

\* mutant: the reference date is derived anew from the collected dates at
\* every call
DatumNaarRelatiefOpnieuw(ref, gevonden, datum) ==
    LET nieuw == IF gevonden # <<>> THEN MinDatum(gevonden) ELSE ref
    IN  IF nieuw = Geen
        THEN [referentie_datum |-> ref, label |-> <<"[DATUM]">>]
        ELSE [referentie_datum |-> nieuw,
              label |-> RelatiefLabel(DagenTussen(datum, nieuw))]

\* Pseudonimiseerder._datum_naar_relatief, src/app.py:224-297: the new
\* referentie_datum and the label
DatumNaarRelatief(ref, gevonden, datum) ==
    LET nieuw == IF ref = Geen /\ gevonden # <<>> THEN MinDatum(gevonden) ELSE ref
    IN  IF nieuw = Geen
        THEN [referentie_datum |-> ref, label |-> <<"[DATUM]">>]
        ELSE [referentie_datum |-> nieuw,
              label |-> RelatiefLabel(DagenTussen(datum, nieuw))]

----------------------------------------------------------------------------
(* SpecDatum: _datum_naar_relatief on an object whose reference date is    *)
(* established, for every date within JaarSpan years of it.                *)

JaarSpan == 3

\* 2022-06-14 and 2021-06-14 (the example table of app.py:680)
RefDatums == { Datum(2022, 6, 14), Datum(2021, 6, 14) }

DatumsRond(ref) ==
    { dt \in [jaar : (ref.jaar - JaarSpan)..(ref.jaar + JaarSpan),
              maand : 1..12, dag : 1..31] :
        GeldigeDatum(dt.jaar, dt.maand, dt.dag) }

DatLeeg ==
    /\ gebruik_relatieve_datums = TRUE /\ referentie_datum = Geen
    /\ gevonden_datums = <<>> /\ incident_date = Geen

ArgIdle == datum_arg = Geen /\ datum_label = <<>>

StatKeys ==
    {"namen", "ziekenhuizen", "plaatsen", "adressen", "datums", "bsn",
     "telefoon", "emails", "iban", "overig"}

StatisticsKeys ==
    {"birth_dates", "bsn", "iban", "phone", "email", "postal_codes", "addresses",
     "names", "kvk", "polis_numbers", "schade_numbers", "patient_ids", "dates"}

\* defaultdict(int): a key that was never counted reads 0
StatLeeg ==
    /\ statistieken = [k \in StatKeys |-> 0] /\ waarschuwingen = <<>>
    /\ statistics = [k \in StatisticsKeys |-> 0] /\ warnings = <<>>

RunIdle ==
    /\ set_volgorde = <<>> /\ meegegeven = Geen /\ runs = 0
    /\ document = <<>> /\ uitvoer = <<>> /\ bij_start = <<>> /\ alfabet = {}

DatumStart ==
    /\ engine = "Pseudonimiseerder"
    /\ gebruik_relatieve_datums = TRUE
    /\ referentie_datum \in RefDatums
    /\ gevonden_datums = <<>> /\ incident_date = Geen
    /\ datum_arg = Geen /\ datum_label = <<>>

\* label = self._datum_naar_relatief(datum)
RoepDatumNaarRelatief ==
    /\ datum_label = <<>>
    /\ \E dt \in DatumsRond(referentie_datum) :
          LET r == DatumNaarRelatief(referentie_datum, gevonden_datums, dt)
          IN  /\ datum_arg' = dt
              /\ datum_label' = <<r.label>>
              /\ referentie_datum' = r.referentie_datum
    /\ UNCHANGED <<engine, gebruik_relatieve_datums, gevonden_datums, incident_date>>
    /\ BuitenDatum

DatumNext == RoepDatumNaarRelatief

----------------------------------------------------------------------------
(* The pseudonym registries.  A label is the sequence of the pieces of its *)
(* f-string, e.g. <<"[", "NAAM", "_", "1", "]">> for [NAAM_1].             *)

Witruimte == {" "}

\* str.lower() on the letters the model uses
LowerChar(c) == CASE c = "A" -> "a" [] c = "B" -> "b" [] OTHER -> c
Lower(s) == [i \in 1..Len(s) |-> LowerChar(s[i])]

\* str.upper() of a category name
Upper(categorie) ==
    CASE categorie = "naam" -> "NAAM" [] categorie = "ziekenhuis" -> "ZIEKENHUIS"
      [] categorie = "plaats" -> "PLAATS" [] categorie = "postcode" -> "POSTCODE"
      [] categorie = "adres" -> "ADRES"

\* str.strip()
RECURSIVE LStrip(_)
LStrip(s) == IF s # <<>> /\ Head(s) \in Witruimte THEN LStrip(Tail(s)) ELSE s
RECURSIVE RStrip(_)
RStrip(s) ==
    IF s # <<>> /\ s[Len(s)] \in Witruimte THEN RStrip(SubSeq(s, 1, Len(s) - 1)) ELSE s
Strip(s) == RStrip(LStrip(s))

\* str.split(): the maximal runs of non-whitespace
RECURSIVE Split(_, _)
Split(s, woord) ==
    LET af == IF woord = <<>> THEN <<>> ELSE <<woord>>
    IN  IF s = <<>> THEN af
        ELSE IF Head(s) \in Witruimte THEN af \o Split(Tail(s), <<>>)
        ELSE Split(Tail(s), Append(woord, Head(s)))

\* ' '.join(woorden)
RECURSIVE Join(_)
Join(woorden) ==
    IF woorden = <<>> THEN <<>>
    ELSE IF Len(woorden) = 1 THEN Head(woorden)
    ELSE Head(woorden) \o <<" ">> \o Join(Tail(woorden))

\* a dict lookup-or-insert
Zet(mapping, key, waarde) == (key :> waarde) @@ mapping

\* Pseudonimiseerder._get_label, src/app.py:217-222: the new _tellers, the new
\* mapping and the label returned
GetLabelKey(origineel) == Strip(Lower(origineel))

\* mutant: a new number on every call, known name or not
GetLabelAltijdNieuw(tel, mapping, categorie, origineel) ==
    LET key == GetLabelKey(origineel)
        n == tel[categorie] + 1
        lab == <<"[", Upper(categorie), "_", ToString(n), "]">>
    IN  [tellers |-> [tel EXCEPT ![categorie] = n],
         mapping |-> Zet(mapping, key, lab),
         label |-> lab]

GetLabel(tel, mapping, categorie, origineel) ==
    LET key == GetLabelKey(origineel)
    IN  IF key \notin DOMAIN mapping
        THEN LET n == tel[categorie] + 1
                 lab == <<"[", Upper(categorie), "_", ToString(n), "]">>
             IN  [tellers |-> [tel EXCEPT ![categorie] = n],
                  mapping |-> Zet(mapping, key, lab),
                  label |-> lab]
        ELSE [tellers |-> tel, mapping |-> mapping, label |-> mapping[key]]

\* MedicalPseudonymizer._normalize_name, src/pseudonymizer.py:49-51
NormalizeName(name) == Join(Split(Lower(name), <<>>))

\* MedicalPseudonymizer._get_person_pseudonym, src/pseudonymizer.py:53-61
GetPersonPseudonym(counter, mapping, name) ==
    LET normalized == NormalizeName(name)
    IN  IF normalized \notin DOMAIN mapping
        THEN LET n == counter + 1
                 lab == <<"[", "PERSOON", "_", ToString(n), "]">>
             IN  [name_counter |-> n,
                  name_mapping |-> Zet(mapping, normalized, lab),
                  label |-> lab]
        ELSE [name_counter |-> counter, name_mapping |-> mapping,
              label |-> mapping[normalized]]

Categorieen == {"naam", "ziekenhuis", "plaats", "postcode", "adres"}

\* the registry fields as the constructors leave them (app.py:209-212,
\* pseudonymizer.py:43-44)
RegLeeg ==
    /\ naam_mapping = <<>>
    /\ tellers = [c \in Categorieen |-> 0]
    /\ name_mapping = <<>>
    /\ name_counter = 0

Engines == {"Pseudonimiseerder", "MedicalPseudonymizer"}

----------------------------------------------------------------------------
(* SpecRegistry: lookups of name texts on one engine object.  A name text  *)
(* is what a name pattern matched: it starts and ends with a letter and    *)
(* may hold runs of whitespace in between (the patterns join the parts of  *)
(* a name with \s+).                                                       *)

MaxNaamLen == 4
MaxNamen == 3

NaamChars == {"a", "A", " "}

NaamTeksten ==
    { t \in UNION { [1..n -> NaamChars] : n \in 1..MaxNaamLen } :
        t[1] # " " /\ t[Len(t)] # " " }

\* the key of the specification: lower-cased, internal whitespace collapsed
SpecSleutel(t) == Join(Split(Lower(t), <<>>))

Onthoud(t, lab) ==
    /\ opgevraagd' = opgevraagd \cup {<<SpecSleutel(t), lab>>}
    /\ volgorde' = IF \E i \in 1..Len(volgorde) : volgorde[i] = SpecSleutel(t)
                   THEN volgorde ELSE Append(volgorde, SpecSleutel(t))

HistLeeg == opgevraagd = {} /\ volgorde = <<>>

RegStart ==
    engine \in Engines /\ RegLeeg /\ HistLeeg /\ DatLeeg /\ ArgIdle /\ StatLeeg /\ RunIdle

\* self._get_label("naam", t, self._naam_mapping)
ZoekLabel ==
    /\ engine = "Pseudonimiseerder"
    /\ \E t \in NaamTeksten :
          LET r == GetLabel(tellers, naam_mapping, "naam", t)
          IN  /\ r.tellers["naam"] <= MaxNamen
              /\ tellers' = r.tellers
              /\ naam_mapping' = r.mapping
              /\ Onthoud(t, r.label)
    /\ UNCHANGED <<engine, name_mapping, name_counter>>
    /\ BuitenReg

\* self._get_person_pseudonym(t)
ZoekPersoon ==
    /\ engine = "MedicalPseudonymizer"
    /\ \E t \in NaamTeksten :
          LET r == GetPersonPseudonym(name_counter, name_mapping, t)
          IN  /\ r.name_counter <= MaxNamen
              /\ name_counter' = r.name_counter
              /\ name_mapping' = r.name_mapping
              /\ Onthoud(t, r.label)
    /\ UNCHANGED <<engine, naam_mapping, tellers>>
    /\ BuitenReg

RegNext == ZoekLabel \/ ZoekPersoon

EngineIdle ==
    engine = "-" /\ RegLeeg /\ HistLeeg /\ DatLeeg /\ ArgIdle /\ StatLeeg /\ RunIdle

----------------------------------------------------------------------------
(* Documents.  A document is a sequence of tokens separated by "; ".  A    *)
(* token is what one pattern of the engines matches: a first name with a   *)
(* surname, a number of nine digits, or a numeric date d-m-y, which may be *)
(* introduced by a keyword ("geb." for a birth date, "ongeval" for the     *)
(* incident).  No pattern of either engine matches across the separator.   *)
(* A name of three words (SpecOverlap) holds two matches of the first-name *)
(* pattern, which overlap in the middle word.                              *)

NaamToken(t) ==
    [soort |-> "naam", voor |-> "", tekst |-> t, dag |-> 0, maand |-> 0, jaar |-> 0]

NummerToken(t) ==
    [soort |-> "nummer", voor |-> "", tekst |-> t, dag |-> 0, maand |-> 0, jaar |-> 0]

DatumToken(v, d, m, j) ==
    [soort |-> "datum", voor |-> v, tekst |-> <<>>, dag |-> d, maand |-> m, jaar |-> j]

\* the keyword in front of the match, and the matched text itself
Voorvoegsel(tok) == IF tok.voor = "" THEN <<>> ELSE <<tok.voor, " ">>

Romp(tok) ==
    IF tok.soort \in {"naam", "nummer"} THEN tok.tekst
    ELSE <<ToString(tok.dag), "-", ToString(tok.maand), "-", ToString(tok.jaar)>>

Scheiding == <<"; ">>

\* the text of a document whose tokens have been replaced by vervanging[i]
RECURSIVE Opmaak(_, _)
Opmaak(doc, vervanging) ==
    IF doc = <<>> THEN <<>>
    ELSE Voorvoegsel(Head(doc)) \o Head(vervanging)
         \o (IF Len(doc) > 1 THEN Scheiding ELSE <<>>)
         \o Opmaak(Tail(doc), Tail(vervanging))

\* the text handed to the entry point
TekstVan(doc) == Opmaak(doc, [i \in 1..Len(doc) |-> Romp(doc[i])])

\* match.start() and match.end() of the match on token i
RompStart(doc, i) ==
    Len(TekstVan(SubSeq(doc, 1, i - 1))) + (IF i > 1 THEN Len(Scheiding) ELSE 0)
    + Len(Voorvoegsel(doc[i]))

RompEind(doc, i) == RompStart(doc, i) + Len(Romp(doc[i]))

----------------------------------------------------------------------------
(* Pseudonimiseerder.pseudonimiseer, src/app.py:434-490, with the          *)
(* detectors it calls.                                                     *)

IsLetter(c) == c \in {"a", "b", "A", "B"}

\* the element of a set of one element; { e(v) : v \in {x} } works x out once
Enige(S) == CHOOSE x \in S : TRUE

\* the words of a text: where one begins, where the one beginning at p
\* ends, and where the next one begins (0 when there is none)
WoordBegin(t) == { p \in 1..Len(t) : t[p] # " " /\ (p = 1 \/ t[p - 1] = " ") }

WoordEinde(t, p) ==
    CHOOSE q \in p..Len(t) :
        /\ \A r \in p..q : t[r] # " "
        /\ q = Len(t) \/ t[q + 1] = " "

VolgendWoord(t, p) ==
    LET later == { q \in WoordBegin(t) : q > p }
    IN  IF later = {} THEN 0 ELSE CHOOSE q \in later : \A r \in later : q <= r

\* the pattern of line 312-315 for one first name: the first name, white
\* space, a capitalised word; re.IGNORECASE
MatchVoornaam(w1, w2, voornaam) ==
    /\ Lower(w1) = voornaam
    /\ Len(w2) >= 2
    /\ \A i \in 1..Len(w2) : IsLetter(w2[i])

\* pattern.finditer(tekst) of line 316 within the text of one token: the
\* matches from position vanaf on, from left to right, none overlapping
\* the one before
RECURSIVE VoornaamMatches(_, _, _)
VoornaamMatches(t, voornaam, vanaf) ==
    LET hier == { p \in WoordBegin(t) :
                    /\ p >= vanaf /\ VolgendWoord(t, p) # 0
                    /\ MatchVoornaam(SubSeq(t, p, WoordEinde(t, p)),
                                     SubSeq(t, VolgendWoord(t, p),
                                            WoordEinde(t, VolgendWoord(t, p))),
                                     voornaam) }
    IN  IF hier = {} THEN <<>>
        ELSE LET p == CHOOSE q \in hier : \A r \in hier : q <= r
                 e == WoordEinde(t, VolgendWoord(t, p))
             IN  <<<<p, e>>>> \o VoornaamMatches(t, voornaam, e + 1)

\* lines 317-319 for the matches of one first name in token i: a label for
\* every match, and the match with its label appended to gevonden
RECURSIVE LabelNamen(_, _, _, _, _)
LabelNamen(tel, mapping, doc, i, matches) ==
    IF matches = <<>> THEN [tellers |-> tel, mapping |-> mapping, gevonden |-> <<>>]
    ELSE LET m == Head(matches)
             groep == SubSeq(doc[i].tekst, m[1], m[2])
         IN  Enige({ [LabelNamen(r.tellers, r.mapping, doc, i, Tail(matches))
                        EXCEPT !.gevonden =
                            <<<<RompStart(doc, i) + m[1] - 1, RompStart(doc, i) + m[2],
                                groep, r.label>>>> \o @] :
                     r \in {GetLabel(tel, mapping, "naam", groep)} })

\* _detecteer_namen, lines 311-319: for every first name in the order of
\* the set, for every match in the order of the text.  The new _tellers,
\* the new _naam_mapping and the list gevonden.
RECURSIVE DetecteerNamen(_, _, _, _, _, _)
DetecteerNamen(tel, mapping, doc, voornamen, k, i) ==
    IF k > Len(voornamen)
    THEN [tellers |-> tel, mapping |-> mapping, gevonden |-> <<>>]
    ELSE IF i > Len(doc) THEN DetecteerNamen(tel, mapping, doc, voornamen, k + 1, 1)
    ELSE IF doc[i].soort = "naam"
    THEN Enige({ [DetecteerNamen(r.tellers, r.mapping, doc, voornamen, k, i + 1)
                    EXCEPT !.gevonden = r.gevonden \o @] :
                 r \in {LabelNamen(tel, mapping, doc, i,
                                   VoornaamMatches(doc[i].tekst, voornamen[k], 1))} })
    ELSE DetecteerNamen(tel, mapping, doc, voornamen, k, i + 1)

\* parse_datum, lines 176-198, on a match of DATUM_DMY with a numeric month
ParseDatum(tok) ==
    LET jaar == IF tok.jaar < 100
                THEN tok.jaar + (IF tok.jaar < 50 THEN 2000 ELSE 1900)
                ELSE tok.jaar
    IN  IF GeldigeDatum(jaar, tok.maand, tok.dag) THEN Datum(jaar, tok.maand, tok.dag)
        ELSE Geen

\* lines 391-396: the matches of DATUM_DMY that parse, in the order of the text
RECURSIVE AlleMatches(_, _)
AlleMatches(doc, i) ==
    IF i > Len(doc) THEN <<>>
    ELSE IF doc[i].soort = "datum" /\ ParseDatum(doc[i]) # Geen
    THEN <<<<RompStart(doc, i), RompEind(doc, i), Romp(doc[i]), ParseDatum(doc[i])>>>>
         \o AlleMatches(doc, i + 1)
    ELSE AlleMatches(doc, i + 1)

\* lines 400-405: the label of every match, the reference date carried along
RECURSIVE LabelDatums(_, _, _, _)
LabelDatums(ref, gevonden, relatief, matches) ==
    IF matches = <<>> THEN [referentie_datum |-> ref, gevonden |-> <<>>]
    ELSE LET m == Head(matches)
             r == IF relatief THEN DatumNaarRelatief(ref, gevonden, m[4])
                  ELSE [referentie_datum |-> ref, label |-> <<"[DATUM]">>]
             rest == LabelDatums(r.referentie_datum, gevonden, relatief, Tail(matches))
         IN  [rest EXCEPT !.gevonden = <<<<m[1], m[2], m[3], r.label>>>> \o @]

\* _detecteer_datums, lines 382-407: the new referentie_datum, the new
\* _gevonden_datums and the list gevonden
DetecteerDatums(ref, verzameld, relatief, doc) ==
    LET alle_matches == AlleMatches(doc, 1)
        uitgebreid == verzameld \o [i \in 1..Len(alle_matches) |-> alle_matches[i][4]]
        r == LabelDatums(ref, uitgebreid, relatief, alle_matches)
    IN  [referentie_datum |-> r.referentie_datum, gevonden_datums |-> uitgebreid,
         gevonden |-> r.gevonden]

\* _detecteer_contact, lines 409-432, on the number tokens of a document: the
\* list gevonden
RECURSIVE DetecteerContactSpans(_, _)
DetecteerContactSpans(doc, i) ==
    IF i > Len(doc) THEN <<>>
    ELSE (IF doc[i].soort = "nummer"
          THEN LET labels == DetecteerContactLabels(Romp(doc[i]))
               IN  [k \in 1..Len(labels) |->
                       <<RompStart(doc, i), RompEind(doc, i), Romp(doc[i]), <<labels[k]>>>>]
          ELSE <<>>)
         \o DetecteerContactSpans(doc, i + 1)

\* the characters of a piece of text; a number stays one piece
Spel(stuk) ==
    CASE stuk = "NAAM" -> <<"N", "A", "A", "M">>
      [] stuk = "PERSOON" -> <<"P", "E", "R", "S", "O", "O", "N">>
      [] stuk = "ZIEKENHUIS" -> <<"Z", "I", "E", "K", "E", "N", "H", "U", "I", "S">>
      [] stuk = "PLAATS" -> <<"P", "L", "A", "A", "T", "S">>
      [] stuk = "POSTCODE" -> <<"P", "O", "S", "T", "C", "O", "D", "E">>
      [] stuk = "ADRES" -> <<"A", "D", "R", "E", "S">>
      [] stuk = "T+" -> <<"T", "+">>
      [] stuk = "T-" -> <<"T", "-">>
      [] stuk = "DATUM" -> <<"D", "A", "T", "U", "M">>
      [] stuk = "BSN" -> <<"B", "S", "N">>
      [] stuk = "TELEFOON" -> <<"T", "E", "L", "E", "F", "O", "O", "N">>
      [] stuk = "EMAIL" -> <<"E", "M", "A", "I", "L">>
      [] stuk = "IBAN" -> <<"I", "B", "A", "N">>
      [] stuk = "[ONGEVAL]" -> <<"[", "O", "N", "G", "E", "V", "A", "L", "]">>
      [] stuk = "[DATUM]" -> <<"[", "D", "A", "T", "U", "M", "]">>
      [] stuk = "[GEBOORTEDATUM]" -> <<"[", "G", "E", "B", "O", "O", "R", "T", "E", "D", "A", "T", "U", "M", "]">>
      [] stuk = "[T" -> <<"[", "T">>
      [] stuk = "[BSN]" -> <<"[", "B", "S", "N", "]">>
      [] stuk = "[TELEFOON]" -> <<"[", "T", "E", "L", "E", "F", "O", "O", "N", "]">>
      [] stuk = "dag" -> <<"d", "a", "g">>
      [] stuk = "dagen" -> <<"d", "a", "g", "e", "n">>
      [] stuk = "week" -> <<"w", "e", "e", "k">>
      [] stuk = "weken" -> <<"w", "e", "k", "e", "n">>
      [] stuk = "maand" -> <<"m", "a", "a", "n", "d">>
      [] stuk = "maanden" -> <<"m", "a", "a", "n", "d", "e", "n">>
      [] stuk = "jaar" -> <<"j", "a", "a", "r">>
      [] stuk = "mnd" -> <<"m", "n", "d">>
      [] stuk = ", " -> <<",", " ">>
      [] OTHER -> <<stuk>>

\* the characters of a label
RECURSIVE Uitgeschreven(_)
Uitgeschreven(label) ==
    IF label = <<>> THEN <<>> ELSE Spel(Head(label)) \o Uitgeschreven(Tail(label))

\* woord in label
Bevat(label, woord) ==
    LET l == Uitgeschreven(label)
        w == Spel(woord)
    IN  \E i \in 0..(Len(l) - Len(w)) : SubSeq(l, i + 1, i + Len(w)) = w

\* lines 467-486: the statistics key of a label
Categorie(label) ==
    IF Bevat(label, "NAAM") THEN "namen"
    ELSE IF Bevat(label, "ZIEKENHUIS") THEN "ziekenhuizen"
    ELSE IF Bevat(label, "PLAATS") THEN "plaatsen"
    ELSE IF Bevat(label, "POSTCODE") \/ Bevat(label, "ADRES") THEN "adressen"
    ELSE IF Bevat(label, "T+") \/ Bevat(label, "T-") \/ Bevat(label, "DATUM") THEN "datums"
    ELSE IF Bevat(label, "BSN") THEN "bsn"
    ELSE IF Bevat(label, "TELEFOON") THEN "telefoon"
    ELSE IF Bevat(label, "EMAIL") THEN "emails"
    ELSE IF Bevat(label, "IBAN") THEN "iban"
    ELSE "overig"

\* the counting of the loop of lines 465-488
RECURSIVE Tel(_, _)
Tel(stat, spans) ==
    IF spans = <<>> THEN stat
    ELSE Tel([stat EXCEPT ![Categorie(Label(Head(spans)))] = @ + 1], Tail(spans))

\* the fields of a Pseudonimiseerder as __init__ leaves them, lines 206-215
NieuwePseudonimiseerder(relatief, ref) ==
    [gebruik_relatieve_datums |-> relatief, referentie_datum |-> ref,
     naam_mapping |-> <<>>, tellers |-> [c \in Categorieen |-> 0],
     gevonden_datums |-> <<>>, statistieken |-> [k \in StatKeys |-> 0],
     waarschuwingen |-> <<>>]

\* pseudonimiseer(tekst) on an object with the fields o: the fields after
\* the call and the text returned
\* one detector call of a run: the text it was handed and the registry,
\* counter and date fields of the object before and after the call
Stap(detector, gescand, voor, na) ==
    [detector |-> detector, gescand |-> gescand, voor |-> voor, na |-> na]

\* the detector calls of pseudonimiseer, lines 437-448: each is handed tekst;
\* namen and datums are what _detecteer_namen and _detecteer_datums left
PseudonimiseerStappen(o, t, namen, datums) ==
    LET s0 == [naam_mapping |-> o.naam_mapping, tellers |-> o.tellers,
               gevonden_datums |-> o.gevonden_datums,
               referentie_datum |-> o.referentie_datum]
        s1 == [s0 EXCEPT !.naam_mapping = namen.mapping, !.tellers = namen.tellers]
        s2 == [s1 EXCEPT !.gevonden_datums = datums.gevonden_datums,
                         !.referentie_datum = datums.referentie_datum]
    IN  << Stap("EMAIL", t, s0, s0),
           Stap("_detecteer_namen", t, s0, s1),
           Stap("_detecteer_locaties", t, s1, s1),
           Stap("_detecteer_adressen", t, s1, s1),
           Stap("_detecteer_datums", t, s1, s2),
           Stap("_detecteer_contact", t, s2, s2) >>

PseudonimiseerOp(o, doc, voornamen) ==
    LET namen == DetecteerNamen(o.tellers, o.naam_mapping, doc, voornamen, 1, 1)
        datums == DetecteerDatums(o.referentie_datum, o.gevonden_datums,
                                  o.gebruik_relatieve_datums, doc)
        contact == DetecteerContactSpans(doc, 1)
        geaccepteerd == SorteerEnFilter(namen.gevonden \o datums.gevonden \o contact)
    IN  [stappen |-> PseudonimiseerStappen(o, TekstVan(doc), namen, datums),
         velden |->
            [gebruik_relatieve_datums |-> o.gebruik_relatieve_datums,
             referentie_datum |-> datums.referentie_datum,
             naam_mapping |-> namen.mapping, tellers |-> namen.tellers,
             gevonden_datums |-> datums.gevonden_datums,
             statistieken |-> Tel(o.statistieken,
                                  StabielSorteer(geaccepteerd, "start_aflopend")),
             waarschuwingen |-> o.waarschuwingen],
         resultaat |-> Vervang(TekstVan(doc), geaccepteerd)]

----------------------------------------------------------------------------
(* MedicalPseudonymizer.pseudonymize, src/pseudonymizer.py:390-444, with   *)
(* the stages that act on names and dates.  Every stage is a re.sub over   *)
(* the text; on a document of tokens it maps the tokens its pattern        *)
(* matches, from left to right, and leaves a replaced token alone.         *)

Hoofdletter(c) == c \in {"A", "B"}
KleineLetter(c) == c \in {"a", "b"}

\* [A-Z][a-z]{2,}
MatchNaamWoord(w) ==
    Len(w) >= 3 /\ Hoofdletter(w[1]) /\ \A i \in 2..Len(w) : KleineLetter(w[i])

\* simple_pattern, line 317; no re.IGNORECASE
MatchSimpel(tok) ==
    /\ tok.soort = "naam"
    /\ LET woorden == Split(tok.tekst, <<>>)
       IN  Len(woorden) = 2 /\ MatchNaamWoord(woorden[1]) /\ MatchNaamWoord(woorden[2])

\* _parse_date, lines 80-89, on d-m-y: %Y takes a year of four digits, %y one
\* of two digits (00-68 is 20yy, 69-99 is 19yy)
ParseDate(tok) ==
    LET jaar == IF tok.jaar >= 1000 THEN tok.jaar
                ELSE IF tok.jaar < 100
                     THEN tok.jaar + (IF tok.jaar <= 68 THEN 2000 ELSE 1900)
                     ELSE 0
    IN  IF jaar # 0 /\ GeldigeDatum(jaar, tok.maand, tok.dag)
        THEN Datum(jaar, tok.maand, tok.dag)
        ELSE Geen

\* _detect_incident_date, lines 63-78: re.search gives the first match of a
\* pattern only; of the four patterns the first one alone matches a date
\* that "ongeval" or "schade" introduces
DetectIncidentDate(doc) ==
    LET treffers == { i \in 1..Len(doc) :
                        doc[i].soort = "datum" /\ doc[i].voor \in {"ongeval", "schade"} }
    IN  IF treffers = {} THEN Geen
        ELSE ParseDate(doc[CHOOSE i \in treffers : \A j \in treffers : i <= j])

\* _date_to_relative, lines 91-103
DateToRelative(incident, date) ==
    IF incident = Geen THEN <<"[DATUM]">>
    ELSE LET delta == DagenTussen(date, incident)
         IN  IF delta = 0 THEN <<"[T", "+", "0", "]">>
             ELSE IF delta > 0 THEN <<"[T", "+", ToString(delta), "]">>
             ELSE <<"[T", "-", ToString(-delta), "]">>

\* the pattern of _replace_birth_dates, line 191, on a token
MatchBirthDate(tok) == tok.soort = "datum" /\ tok.voor = "geb."

\* _replace_birth_dates, lines 188-203
ReplaceBirthDates(stat, doc, werk) ==
    LET treffers == { i \in 1..Len(doc) : ~werk[i].vervangen /\ MatchBirthDate(doc[i]) }
    IN  [statistics |-> [stat EXCEPT !["birth_dates"] = @ + Cardinality(treffers)],
         werk |-> [i \in 1..Len(doc) |->
                     IF i \in treffers
                     THEN [vervangen |-> TRUE, romp |-> <<"[GEBOORTEDATUM]">>]
                     ELSE werk[i]]]

\* _replace_bsn, lines 105-120, on the number tokens
ReplaceBsnStage(stat, doc, werk) ==
    LET treffers == { i \in 1..Len(doc) :
                        /\ ~werk[i].vervangen /\ doc[i].soort = "nummer"
                        /\ ReplaceBsnTekst(Romp(doc[i])) # Romp(doc[i]) }
    IN  [statistics |-> [stat EXCEPT !["bsn"] = @ + Cardinality(treffers)],
         werk |-> [i \in 1..Len(doc) |->
                     IF i \in treffers
                     THEN [vervangen |-> TRUE, romp |-> ReplaceBsnTekst(Romp(doc[i]))]
                     ELSE werk[i]]]

\* _replace_policy_numbers, lines 357-378, on the date tokens: the pattern
\* (Schade(?:nummer)?|Schadenr\.?)\s*[:\s]*([A-Z0-9\-]+) takes the keyword
\* "schade" and the digits and dashes behind it
ReplacePolicyNumbers(stat, doc, werk) ==
    LET treffers == { i \in 1..Len(doc) :
                        /\ ~werk[i].vervangen /\ doc[i].soort = "datum"
                        /\ doc[i].voor = "schade" }
    IN  [statistics |-> [stat EXCEPT !["schade_numbers"] = @ + Cardinality(treffers)],
         werk |-> [i \in 1..Len(doc) |->
                     IF i \in treffers
                     THEN [vervangen |-> TRUE, romp |-> <<"[SCHADE_NUMMER]">>]
                     ELSE werk[i]]]

\* the replacement of _replace_policy_numbers is group 1 + ': [SCHADE_NUMMER]':
\* the keyword of such a token is followed by a colon from then on
NaPolis(doc, werk) ==
    [i \in 1..Len(doc) |->
        IF werk[i].romp = <<"[SCHADE_NUMMER]">> THEN [doc[i] EXCEPT !.voor = "schade:"]
        ELSE doc[i]]

\* the text as it stands after a stage
NaStadium(doc, werk) ==
    Opmaak(NaPolis(doc, werk), [i \in 1..Len(doc) |-> werk[i].romp])

\* _replace_names, lines 316-344
RECURSIVE ReplaceNames(_, _, _, _, _, _)
ReplaceNames(counter, mapping, stat, doc, werk, i) ==
    IF i > Len(doc)
    THEN [name_counter |-> counter, name_mapping |-> mapping, statistics |-> stat,
          werk |-> werk]
    ELSE IF ~werk[i].vervangen /\ MatchSimpel(doc[i])
    THEN LET r == GetPersonPseudonym(counter, mapping, Romp(doc[i]))
         IN  ReplaceNames(r.name_counter, r.name_mapping,
                          [stat EXCEPT !["names"] = @ + 1], doc,
                          [werk EXCEPT ![i] = [vervangen |-> TRUE, romp |-> r.label]],
                          i + 1)
    ELSE ReplaceNames(counter, mapping, stat, doc, werk, i + 1)

\* the date of a match in _replace_dates, lines 210-218 (Geen: the match is
\* left as it is)
ReplaceDatesParse(tok) ==
    LET year == IF tok.jaar < 100
                THEN (IF tok.jaar < 50 THEN 2000 + tok.jaar ELSE 1900 + tok.jaar)
                ELSE tok.jaar
    IN  IF /\ 1 <= tok.dag /\ tok.dag <= 31 /\ 1 <= tok.maand /\ tok.maand <= 12
           /\ GeldigeDatum(year, tok.maand, tok.dag)
        THEN Datum(year, tok.maand, tok.dag)
        ELSE Geen

\* _replace_dates, lines 205-226
ReplaceDates(incident, stat, doc, werk) ==
    LET treffers == { i \in 1..Len(doc) :
                        /\ ~werk[i].vervangen /\ doc[i].soort = "datum"
                        /\ ReplaceDatesParse(doc[i]) # Geen }
    IN  [statistics |-> [stat EXCEPT !["dates"] = @ + Cardinality(treffers)],
         werk |-> [i \in 1..Len(doc) |->
                     IF i \in treffers
                     THEN [vervangen |-> TRUE,
                           romp |-> DateToRelative(incident, ReplaceDatesParse(doc[i]))]
                     ELSE werk[i]]]

GeenOngevalsdatum ==
    "Geen ongevalsdatum gevonden. Datums worden als [DATUM] weergegeven. Vul de ongevalsdatum handmatig in voor relatieve datums."

\* the fields of a MedicalPseudonymizer as __init__ leaves them, lines 41-46
NieuweMedicalPseudonymizer(incident) ==
    [incident_date |-> incident, name_mapping |-> <<>>, name_counter |-> 0,
     statistics |-> [k \in StatisticsKeys |-> 0], warnings |-> <<>>]

\* the reset block of pseudonymize, lines 394-399
Reset(o) ==
    [o EXCEPT !.name_mapping = <<>>, !.name_counter = 0,
              !.statistics = [k \in StatisticsKeys |-> 0], !.warnings = <<>>]

\* pseudonymize(text) on an object with the fields o: the fields the stages
\* started from, the fields after the call and pseudonymized_text
\* the stages of pseudonymize, lines 412-435, each handed the result of the
\* one before: t0 the text, t1 after the birth dates, t2 after the BSN stage,
\* tp after the policy numbers (no other stage before the names finds
\* anything in a document of names, numbers and dates), t3 after the names;
\* m0 the fields before the stages
PseudonymizeStappen(t0, t1, t2, tp, t3, m0, namen) ==
    LET m1 == [m0 EXCEPT !.name_mapping = namen.name_mapping,
                         !.name_counter = namen.name_counter]
    IN  << Stap("_replace_birth_dates", t0, m0, m0),
           Stap("_replace_bsn", t1, m0, m0),
           Stap("_replace_iban", t2, m0, m0),
           Stap("_replace_patient_ids", t2, m0, m0),
           Stap("_replace_policy_numbers", t2, m0, m0),
           Stap("_replace_kvk", tp, m0, m0),
           Stap("_replace_email", tp, m0, m0),
           Stap("_replace_phone_numbers", tp, m0, m0),
           Stap("_replace_addresses", tp, m0, m0),
           Stap("_replace_postal_codes", tp, m0, m0),
           Stap("_replace_names", tp, m0, m1),
           Stap("_replace_dates", t3, m1, m1) >>

\* lines 416-435: every stage works on what the stage before it left, which
\* is one value v, worked out before the stage begins
StadiumGeboorte(schoon, doc) ==
    ReplaceBirthDates(schoon.statistics, doc,
                      [i \in 1..Len(doc) |-> [vervangen |-> FALSE, romp |-> Romp(doc[i])]])

StadiumBsn(vorig, doc) ==
    Enige({ ReplaceBsnStage(v.statistics, doc, v.werk) : v \in {vorig} })

StadiumPolis(vorig, doc) ==
    Enige({ ReplacePolicyNumbers(v.statistics, doc, v.werk) : v \in {vorig} })

StadiumNamen(schoon, vorig, doc) ==
    Enige({ ReplaceNames(schoon.name_counter, schoon.name_mapping, v.statistics,
                         doc, v.werk, 1) : v \in {vorig} })

StadiumDatums(incident, vorig, doc) ==
    Enige({ ReplaceDates(incident, v.statistics, doc, v.werk) : v \in {vorig} })

\* the fields of the object when pseudonymize returns
VeldenNa(incident, namen, datums, warn) ==
    [incident_date |-> incident, name_mapping |-> namen.name_mapping,
     name_counter |-> namen.name_counter, statistics |-> datums.statistics,
     warnings |-> warn]

PseudonymizeOp(o, doc) ==
    LET schoon == Reset(o)
        detected == IF schoon.incident_date = Geen THEN DetectIncidentDate(doc) ELSE Geen
        incident == IF schoon.incident_date = Geen THEN detected ELSE schoon.incident_date
        warn == IF schoon.incident_date = Geen /\ detected = Geen
                THEN Append(schoon.warnings, GeenOngevalsdatum) ELSE schoon.warnings
        geb == StadiumGeboorte(schoon, doc)
        bsn == StadiumBsn(geb, doc)
        polis == StadiumPolis(bsn, doc)
        namen == StadiumNamen(schoon, polis, doc)
        datums == StadiumDatums(incident, namen, doc)
    IN  [stappen |->
            PseudonymizeStappen(
                TekstVan(doc),
                NaStadium(doc, geb.werk),
                NaStadium(doc, bsn.werk),
                NaStadium(doc, polis.werk),
                NaStadium(doc, namen.werk),
                [name_mapping |-> schoon.name_mapping,
                 name_counter |-> schoon.name_counter, incident_date |-> incident],
                namen),
         bij_start |-> schoon,
         velden |-> VeldenNa(incident, namen, datums, warn),
         resultaat |-> NaStadium(doc, datums.werk)]

----------------------------------------------------------------------------
(* SpecRun: one engine object, constructed with or without a reference     *)
(* date, and at most MaxRuns calls of its entry point on documents of at   *)
(* most MaxDocLen tokens.                                                  *)

MaxDocLen == 2
MaxRuns == 2

Aaa == <<"a", "a", "a">>
Bbb == <<"b", "b", "b">>

\* two names whose first names are in VOORNAMEN (as "jan" and "piet" are)
RunNamen ==
    { <<"A", "a", "a", " ", "A", "a", "a">>, <<"B", "b", "b", " ", "B", "b", "b">> }

\* 10-6-2022, 21-6-2022 and 31-2-2022, which is no date
RunDatums == { <<10, 6, 2022>>, <<21, 6, 2022>>, <<31, 2, 2022>> }

\* 123456782 passes the 11-check, 123456789 does not
RunNummers ==
    { <<"1","2","3","4","5","6","7","8","2">>, <<"1","2","3","4","5","6","7","8","9">> }

Trefwoorden == {"", "geb.", "ongeval"}

\* SpecRun: names and dates
RunTokens ==
    { NaamToken(t) : t \in RunNamen }
    \cup { DatumToken(v, d[1], d[2], d[3]) : v \in Trefwoorden, d \in RunDatums }

\* SpecMisvormd: numbers, and a date and a non-date behind every keyword
MisvormdTokens ==
    { NummerToken(t) : t \in RunNummers }
    \cup { DatumToken(v, d[1], d[2], d[3]) :
              v \in Trefwoorden, d \in { <<10, 6, 2022>>, <<31, 2, 2022>> } }

\* SpecNamen: one name in three capitalisations, and another name
NamenTokens ==
    { NaamToken(t) : t \in RunNamen }
    \cup { NaamToken(<<"a", "a", "a", " ", "a", "a", "a">>),
           NaamToken(<<"A", "A", "A", " ", "A", "A", "A">>) }

\* SpecJaar: dates with a two-digit year on both sides of 50 and of 68, a
\* day above 31 and a month above 12, bare and behind the incident keyword
JaarDatums == { <<10, 6, 49>>, <<10, 6, 60>>, <<10, 6, 69>>, <<32, 6, 49>>, <<10, 13, 60>> }

JaarTokens ==
    { DatumToken(v, d[1], d[2], d[3]) : v \in {"", "ongeval"}, d \in JaarDatums }

\* SpecSchade: dates bare and behind the incident keywords "ongeval" and "schade"
SchadeTokens ==
    { DatumToken(v, d[1], d[2], d[3]) :
        v \in {"", "ongeval", "schade"}, d \in { <<10, 6, 2022>>, <<21, 6, 2022>> } }
    \cup { NaamToken(<<"A", "a", "a", " ", "A", "a", "a">>) }

\* SpecOverlap: a name of two words, and names of three words of which the
\* first two are first names in VOORNAMEN (as in "Jan Piet Klaas")
OverlapTokens ==
    { NaamToken(<<"A", "a", "a", " ", "A", "a", "a">>),
      NaamToken(<<"A", "a", "a", " ", "B", "b", "b", " ", "A", "a", "a">>),
      NaamToken(<<"B", "b", "b", " ", "A", "a", "a", " ", "B", "b", "b">>),
      DatumToken("", 10, 6, 2022) }

Documenten == UNION { [1..n -> alfabet] : n \in 0..MaxDocLen }

\* the orders in which a process can iterate over the set VOORNAMEN
SetVolgordes == { <<Aaa, Bbb>>, <<Bbb, Aaa>> }

\* the reference date a caller passes: 14-6-2022
Meegegeven == Datum(2022, 6, 14)

RunStart ==
    /\ engine \in Engines
    /\ RegLeeg /\ StatLeeg
    /\ meegegeven \in {Geen, Meegegeven}
    /\ gevonden_datums = <<>>
    /\ IF engine = "Pseudonimiseerder"
       THEN /\ gebruik_relatieve_datums \in BOOLEAN
            /\ referentie_datum = meegegeven /\ incident_date = Geen
            /\ set_volgorde \in SetVolgordes
       ELSE /\ gebruik_relatieve_datums = TRUE
            /\ referentie_datum = Geen /\ incident_date = meegegeven
            /\ set_volgorde = <<>>
    /\ runs = 0 /\ document = <<>> /\ uitvoer = <<>> /\ bij_start = <<>>
    /\ HistLeeg /\ ArgIdle /\ BsnIdle /\ ResIdle

\* the fields of the engine object
Velden ==
    IF engine = "Pseudonimiseerder"
    THEN [gebruik_relatieve_datums |-> gebruik_relatieve_datums,
          referentie_datum |-> referentie_datum,
          naam_mapping |-> naam_mapping, tellers |-> tellers,
          gevonden_datums |-> gevonden_datums, statistieken |-> statistieken,
          waarschuwingen |-> waarschuwingen]
    ELSE [incident_date |-> incident_date, name_mapping |-> name_mapping,
          name_counter |-> name_counter, statistics |-> statistics,
          warnings |-> warnings]

\* resultaat = pseudo.pseudonimiseer(tekst)
Pseudonimiseer ==
    /\ engine = "Pseudonimiseerder"
    /\ runs < MaxRuns
    /\ \E doc \in Documenten :
          \E r \in {PseudonimiseerOp(Velden, doc, set_volgorde)} :
              /\ naam_mapping' = r.velden.naam_mapping
              /\ tellers' = r.velden.tellers
              /\ referentie_datum' = r.velden.referentie_datum
              /\ gevonden_datums' = r.velden.gevonden_datums
              /\ statistieken' = r.velden.statistieken
              /\ waarschuwingen' = r.velden.waarschuwingen
              /\ document' = doc
              /\ uitvoer' = r.resultaat
              /\ bij_start' = Velden
    /\ runs' = runs + 1
    /\ UNCHANGED <<engine, name_mapping, name_counter, gebruik_relatieve_datums,
                   incident_date, statistics, warnings, set_volgorde, meegegeven,
                   alfabet>>
    /\ BuitenRun

\* the object and the result once pseudonymize(text) has returned r
PseudonymizeKlaar(r, doc) ==
    /\ name_mapping' = r.velden.name_mapping
    /\ name_counter' = r.velden.name_counter
    /\ incident_date' = r.velden.incident_date
    /\ statistics' = r.velden.statistics
    /\ warnings' = r.velden.warnings
    /\ document' = doc
    /\ uitvoer' = r.resultaat
    /\ bij_start' = r.bij_start

\* result = pseudonymizer.pseudonymize(text)
Pseudonymize ==
    /\ engine = "MedicalPseudonymizer"
    /\ runs < MaxRuns
    /\ \E doc \in Documenten :
          \E r \in {PseudonymizeOp(Velden, doc)} : PseudonymizeKlaar(r, doc)
    /\ runs' = runs + 1
    /\ UNCHANGED <<engine, naam_mapping, tellers, gebruik_relatieve_datums,
                   referentie_datum, gevonden_datums, statistieken, waarschuwingen,
                   set_volgorde, meegegeven, alfabet>>
    /\ BuitenRun

RunNext == Pseudonimiseer \/ Pseudonymize

----------------------------------------------------------------------------
(* Pseudonimiseerder._detecteer_contact, src/app.py:409-432, on a text of  *)
(* digits and separators: the patterns BSN, MOBIEL and TELEFOON matched    *)
(* the way re does it, leftmost first and by ordered backtracking. The     *)
(* texts hold no letters, so IBAN and PATIENTNUMMER find nothing.          *)
(* Offsets are Python's: offset p lies before character p + 1.             *)

WoordTeken(c) == c \in DigitChars \cup {"_"}

\* \b at offset p
Grens(t, p) ==
    (p >= 1 /\ WoordTeken(t[p])) # (p < Len(t) /\ WoordTeken(t[p + 1]))

RECURSIVE Plat(_)
Plat(rijen) == IF rijen = <<>> THEN <<>> ELSE Head(rijen) \o Plat(Tail(rijen))

\* pattern F after every end in einden, the alternatives kept in the order
\* in which backtracking tries them
Dan(einden, F(_)) == Plat([i \in 1..Len(einden) |-> F(einden[i])])

\* (?:0|\+31|0031)
Land(t, p) ==
    (IF p + 1 <= Len(t) /\ t[p + 1] = "0" THEN <<p + 1>> ELSE <<>>)
    \o (IF p + 3 <= Len(t) /\ SubSeq(t, p + 1, p + 3) = <<"+", "3", "1">>
        THEN <<p + 3>> ELSE <<>>)
    \o (IF p + 4 <= Len(t) /\ SubSeq(t, p + 1, p + 4) = <<"0", "0", "3", "1">>
        THEN <<p + 4>> ELSE <<>>)

\* [\s.-]? : greedy
OptScheiding(t, p) ==
    IF p < Len(t) /\ t[p + 1] \in {" ", ".", "-"} THEN <<p + 1, p>> ELSE <<p>>

\* \d{lo,hi} : greedy, the longest run first
CijfersEinden(t, p, lo, hi) ==
    LET n == Cardinality({ k \in 1..hi :
                             p + k <= Len(t) /\ AllDigits(t, p + 1, p + k) })
    IN  IF n < lo THEN <<>> ELSE [i \in 1..(n - lo + 1) |-> p + n - i + 1]

Teken(t, p, tekens) ==
    IF p < Len(t) /\ t[p + 1] \in tekens THEN <<p + 1>> ELSE <<>>

\* the first end, in backtracking order, that lies on a word boundary
EersteGrens(t, einden) ==
    LET goed == { i \in 1..Len(einden) : Grens(t, einden[i]) }
    IN  IF goed = {} THEN -1
        ELSE einden[CHOOSE i \in goed : \A j \in goed : i <= j]

\* PIIPatterns.BSN at offset p: the end of the match or -1
MatchBsnOp(t, p) ==
    IF /\ Grens(t, p) /\ p + 9 <= Len(t) /\ AllDigits(t, p + 1, p + 9)
       /\ Grens(t, p + 9)
    THEN p + 9 ELSE -1

\* PIIPatterns.MOBIEL at offset p: the end of the match or -1
MatchMobielOp(t, p) ==
    LET groep(q) == Dan(CijfersEinden(t, q, 2, 2), LAMBDA r : OptScheiding(t, r))
        e1 == Dan(Land(t, p), LAMBDA q : OptScheiding(t, q))
        e2 == Dan(e1, LAMBDA q : Teken(t, q, {"6"}))
        e3 == Dan(e2, LAMBDA q : OptScheiding(t, q))
        e4 == Dan(Dan(Dan(e3, groep), groep), groep)
        e5 == Dan(e4, LAMBDA q : CijfersEinden(t, q, 2, 2))
    IN  IF Grens(t, p) THEN EersteGrens(t, e5) ELSE -1

\* PIIPatterns.TELEFOON at offset p: the end of the match or -1
MatchTelefoonOp(t, p) ==
    LET groep(q) == Dan(CijfersEinden(t, q, 2, 3), LAMBDA r : OptScheiding(t, r))
        e1 == Dan(Land(t, p), LAMBDA q : OptScheiding(t, q))
        e2 == Dan(e1, LAMBDA q : Teken(t, q, DigitChars \ {"0"}))
        e3 == Dan(e2, LAMBDA q : CijfersEinden(t, q, 1, 2))
        e4 == Dan(e3, LAMBDA q : OptScheiding(t, q))
        \* {2,3}: a third group is tried before stopping after two
        e5 == Dan(Dan(Dan(e4, groep), groep), LAMBDA q : groep(q) \o <<q>>)
        e6 == Dan(e5, LAMBDA q : CijfersEinden(t, q, 2, 2))
    IN  IF Grens(t, p) THEN EersteGrens(t, e6) ELSE -1

MatchOp(patroon, t, p) ==
    CASE patroon = "BSN" -> MatchBsnOp(t, p)
      [] patroon = "MOBIEL" -> MatchMobielOp(t, p)
      [] patroon = "TELEFOON" -> MatchTelefoonOp(t, p)

\* pattern.finditer(tekst) from offset p on: the matches <<start, end>>
RECURSIVE FindIter(_, _, _)
FindIter(patroon, t, p) ==
    IF p >= Len(t) THEN <<>>
    ELSE IF MatchOp(patroon, t, p) > p
         THEN <<<<p, MatchOp(patroon, t, p)>>>> \o FindIter(patroon, t, MatchOp(patroon, t, p))
         ELSE FindIter(patroon, t, p + 1)

\* lines 421-426: the loop over the matches of one phone pattern
RECURSIVE TelefoonLus(_, _, _)
TelefoonLus(gevonden, matches, t) ==
    IF matches = <<>> THEN gevonden
    ELSE LET m == Head(matches)
             al_gevonden == \E i \in 1..Len(gevonden) :
                               gevonden[i][1] <= m[1] /\ m[1] < gevonden[i][2]
         IN  TelefoonLus(
                 IF al_gevonden THEN gevonden
                 ELSE Append(gevonden, <<m[1], m[2], SubSeq(t, m[1] + 1, m[2]),
                                         <<"[TELEFOON]">>>>),
                 Tail(matches), t)

\* _detecteer_contact(tekst): the list gevonden it returns
DetecteerContactTekst(t) ==
    LET alle == FindIter("BSN", t, 0)
        bsn == SelectSeq(alle, LAMBDA m : valideer_bsn(SubSeq(t, m[1] + 1, m[2])))
        gevonden == [i \in 1..Len(bsn) |->
                        <<bsn[i][1], bsn[i][2], SubSeq(t, bsn[i][1] + 1, bsn[i][2]),
                          <<"[BSN]">>>>]
    IN  TelefoonLus(TelefoonLus(gevonden, FindIter("MOBIEL", t, 0), t),
                    FindIter("TELEFOON", t, 0), t)

(* SpecContact: a text of an optional prefix and a number, the contact     *)
(* detector on it, then the sort-and-filter pass and the substitution.     *)

ContactVoor ==
    { <<>>, <<"0">>, <<"0", "6">>, <<"0", "2", "0", " ">>, <<"0", "2", "0", "-">>,
      <<"0", "6", " ">>, <<"+", "3", "1", " ">>,
      <<"0", "6", "1", "2", "3", "4", "5", "6", "7", "8", " ">> }

ContactNummers ==
    { <<"1", "2", "3", "4", "5", "6", "7", "8", "2">>,
      <<"1", "2", "3", "4", "5", "6", "7", "8", "9">>,
      <<"6", "1", "2", "3", "4", "5", "6", "7", "8">>,
      <<"1", "1", "1", "2", "2", "2", "3", "3", "3">>,
      <<"2", "0", "1", "2", "3", "4", "5", "6">>,
      <<"1", "2", "3", " ", "4", "5", "6", "7", "8", "2">>,
      <<"0", "6", "1", "2", "3", "4", "5", "6", "7", "8">> }

ContactTeksten == { v \o n : v \in ContactVoor, n \in ContactNummers }

ContactStart ==
    /\ tekst \in ContactTeksten /\ alle_vervangingen = <<>> /\ gefilterd = <<>>
    /\ resultaat = <<>> /\ res_pc = "scan"

\* alle_vervangingen.extend(self._detecteer_contact(tekst)), line 448
ScanContact ==
    /\ res_pc = "scan"
    /\ alle_vervangingen' = alle_vervangingen \o DetecteerContactTekst(tekst)
    /\ res_pc' = "verzamel"
    /\ UNCHANGED <<tekst, gefilterd, resultaat>>
    /\ BuitenRes

ContactNext == ScanContact \/ ResolveEnVervang

----------------------------------------------------------------------------
(* The specifications                                                      *)

BsnInit == BsnStart /\ ResIdle /\ EngineIdle
SpecBsn == BsnInit /\ [][BsnNext]_vars

ResInit == ResStart /\ BsnIdle /\ EngineIdle
SpecResolver == ResInit /\ [][ResNext]_vars

RegInit == RegStart /\ BsnIdle /\ ResIdle
SpecRegistry == RegInit /\ [][RegNext]_vars

DatumInit ==
    DatumStart /\ RegLeeg /\ HistLeeg /\ StatLeeg /\ RunIdle /\ BsnIdle /\ ResIdle
SpecDatum == DatumInit /\ [][DatumNext]_vars

RunInit == RunStart /\ alfabet = RunTokens
SpecRun == RunInit /\ [][RunNext]_vars

MisvormdInit == RunStart /\ alfabet = MisvormdTokens
SpecMisvormd == MisvormdInit /\ [][RunNext]_vars

NamenInit == RunStart /\ alfabet = NamenTokens
SpecNamen == NamenInit /\ [][RunNext]_vars

JaarInit == RunStart /\ alfabet = JaarTokens
SpecJaar == JaarInit /\ [][RunNext]_vars

SchadeInit == RunStart /\ alfabet = SchadeTokens
SpecSchade == SchadeInit /\ [][RunNext]_vars

OverlapInit == RunStart /\ engine = "Pseudonimiseerder" /\ alfabet = OverlapTokens
SpecOverlap == OverlapInit /\ [][Pseudonimiseer]_vars

ContactInit == ContactStart /\ BsnIdle /\ EngineIdle
SpecContact == ContactInit /\ [][ContactNext]_vars

----------------------------------------------------------------------------
(* ======================= Properties of the claims ====================== *)

K123456782 == <<"1","2","3","4","5","6","7","8","2">>
K123456789 == <<"1","2","3","4","5","6","7","8","9">>

\* the 11-check written out: 9*d1 + 8*d2 + ... + 2*d8 - d9
ElfProefSom(s) ==
    9 * IntOf(s[1]) + 8 * IntOf(s[2]) + 7 * IntOf(s[3]) + 6 * IntOf(s[4])
    + 5 * IntOf(s[5]) + 4 * IntOf(s[6]) + 3 * IntOf(s[7]) + 2 * IntOf(s[8])
    - IntOf(s[9])

ElfProef(s) ==
    /\ Len(s) = 9
    /\ \A i \in 1..9 : s[i] \in DigitChars
    /\ \E k \in 0..45 : ElfProefSom(s) = 11 * k
    /\ ElfProefSom(s) # 0

\* C2: on both national-ID paths (Pseudonimiseerder._detecteer_contact and
\* MedicalPseudonymizer._replace_bsn) a candidate gets the label [BSN] only if
\* its nine digits pass the 11-check; 123456789 never gets it, 123456782 does.
C2_ChecksumGate ==
    /\ bsn_pc = "contact" =>
          /\ ("[BSN]" \in { contact_gevonden[i] : i \in 1..Len(contact_gevonden) }
                 => ElfProef(DigitsOf(kandidaat)))
          /\ (kandidaat = K123456782 => contact_gevonden = <<"[BSN]">>)
    /\ bsn_pc = "replace" =>
          /\ (bsn_resultaat = << <<"[BSN]">> >> => ElfProef(DigitsOf(kandidaat)))
          /\ (kandidaat = K123456782 => bsn_resultaat = << <<"[BSN]">> >>)

\* C3: valideer_bsn(s) is true exactly when s is nine decimal digits whose
\* weighted sum 9*d1 + ... + 2*d8 - d9 is a non-zero multiple of 11.
C3_ValideerBsnExact ==
    bsn_pc = "valideer" => geldig = << ElfProef(kandidaat) >>

C3_Witness ==
    /\ bsn_pc = "valideer" /\ kandidaat = K123456782 /\ geldig = <<TRUE>>

Overlap(a, b) == Start(a) < Eind(b) /\ Start(b) < Eind(a)

\* C1: after the sort-and-filter pass no two accepted spans a, b satisfy
\* a.start < b.end and b.start < a.end; in start order each accepted span
\* ends at or before the start of the next one.
C1_NonOverlap ==
    res_pc = "klaar" =>
        /\ \A i, j \in 1..Len(gefilterd) :
              i # j => ~Overlap(gefilterd[i], gefilterd[j])
        /\ LET oplopend == StabielSorteer(gefilterd, "start")
           IN  \A i \in 1..(Len(oplopend) - 1) :
                  Eind(oplopend[i]) <= Start(oplopend[i + 1])

\* overlapping candidates went in, more than one span came out
C1_Witness ==
    /\ res_pc = "klaar"
    /\ Len(gefilterd) >= 2
    /\ \E i, j \in 1..Len(alle_vervangingen) :
          i # j /\ Overlap(alle_vervangingen[i], alle_vervangingen[j])

\* C4: two name texts whose normalised keys (lower-cased, internal whitespace
\* collapsed) are equal get the identical label from the registry, in either
\* implementation, whatever was looked up in between.
C4_RegistryIdempotent ==
    \A p, q \in opgevraagd : p[1] = q[1] => p[2] = q[2]

TellerNamen ==
    IF engine = "Pseudonimiseerder" THEN tellers["naam"] ELSE name_counter

NaamLabel(n) ==
    IF engine = "Pseudonimiseerder"
    THEN <<"[", "NAAM", "_", ToString(n), "]">>
    ELSE <<"[", "PERSOON", "_", ToString(n), "]">>

\* C5: the N-th distinct name (by normalised key) gets counter value N, a
\* repeated sighting returns the earlier label without incrementing, so the
\* name counter equals the number of distinct names seen and the number of
\* registry entries.
C5_CounterMonotonic ==
    engine \in Engines =>
        /\ \A i \in 1..Len(volgorde) :
              \A p \in opgevraagd : p[1] = volgorde[i] => p[2] = NaamLabel(i)
        /\ TellerNamen = Len(volgorde)
        /\ TellerNamen = Cardinality(DOMAIN naam_mapping \cup DOMAIN name_mapping)

\* calendar order, read off the year, month and day
Na(a, b) ==
    \/ a.jaar > b.jaar
    \/ a.jaar = b.jaar /\ a.maand > b.maand
    \/ a.jaar = b.jaar /\ a.maand = b.maand /\ a.dag > b.dag

\* C9: with an established reference date R the label of D is the incident
\* marker exactly when D and R are the same day; otherwise its sign is '+'
\* when D is after R and '-' when D is before R (R = 2022-06-14: 2022-06-14
\* gives the marker, 2022-06-10 a '-' label).
C9_MarkerEnTeken ==
    datum_label # <<>> =>
        LET lab == datum_label[1]
        IN  /\ (lab = <<"[ONGEVAL]">>) <=> (datum_arg = referentie_datum)
            /\ Na(datum_arg, referentie_datum) => (lab[1] = "[" /\ lab[2] = "+")
            /\ Na(referentie_datum, datum_arg) => (lab[1] = "[" /\ lab[2] = "-")
            /\ (referentie_datum = Datum(2022, 6, 14) /\ datum_arg = Datum(2022, 6, 10))
                  => lab = <<"[", "-", "4", " ", "dagen", "]">>

C9_Witness ==
    /\ referentie_datum = Datum(2022, 6, 14)
    /\ datum_arg = Datum(2022, 6, 10)
    /\ datum_label = << <<"[", "-", "4", " ", "dagen", "]">> >>


IsApp == engine = "Pseudonimiseerder"

\* what a newly constructed engine object makes of the last document
Vers ==
    IF IsApp
    THEN PseudonimiseerOp(NieuwePseudonimiseerder(gebruik_relatieve_datums, meegegeven),
                          document, set_volgorde)
    ELSE PseudonymizeOp(NieuweMedicalPseudonymizer(meegegeven), document)

\* C6: every call of the entry point starts with an empty registry, all
\* counters at 0 and empty statistics and warnings, so the text, the
\* statistics and the warnings of a call are those a newly constructed object
\* gives for the same document.
C6_PerRunReset ==
    runs > 0 =>
        /\ IF IsApp
           THEN /\ bij_start.naam_mapping = <<>>
                /\ bij_start.tellers = [c \in Categorieen |-> 0]
                /\ bij_start.statistieken = [k \in StatKeys |-> 0]
                /\ bij_start.waarschuwingen = <<>>
           ELSE /\ bij_start.name_mapping = <<>>
                /\ bij_start.name_counter = 0
                /\ bij_start.statistics = [k \in StatisticsKeys |-> 0]
                /\ bij_start.warnings = <<>>
        /\ uitvoer = Vers.resultaat
        /\ IF IsApp
           THEN /\ statistieken = Vers.velden.statistieken
                /\ waarschuwingen = Vers.velden.waarschuwingen
           ELSE /\ statistics = Vers.velden.statistics
                /\ warnings = Vers.velden.warnings

\* the reference date the date labels of the last call were computed against
GebruikteReferentie ==
    IF IsApp THEN (IF gebruik_relatieve_datums THEN referentie_datum ELSE Geen)
    ELSE incident_date

\* the date tokens of a document that the engine gives a timeline label
Gelabeld(doc) ==
    { i \in 1..Len(doc) :
        /\ doc[i].soort = "datum"
        /\ IF IsApp THEN ParseDatum(doc[i]) # Geen
           ELSE ~MatchBirthDate(doc[i]) /\ ReplaceDatesParse(doc[i]) # Geen }

\* every date that stands in a document
DatumsVan(doc) ==
    { ParseDatum(doc[i]) : i \in { j \in 1..Len(doc) : doc[j].soort = "datum" } } \ {Geen}

\* C7: the reference date that the date labels of a call are computed against
\* is the date the caller supplied or a date of the document of that call,
\* never one left behind by an earlier document.
C7_ReferentieLektNiet ==
    (runs > 0 /\ GebruikteReferentie # Geen /\ Gelabeld(document) # {}) =>
        \/ GebruikteReferentie = meegegeven
        \/ GebruikteReferentie \in DatumsVan(document)

IsMinimum(d, datums) == d \in datums /\ \A e \in datums : Ordinaal(d) <= Ordinaal(e)

\* the label of a name token as the registry of the object holds it
NaamUitRegister(tok) ==
    IF IsApp THEN naam_mapping[GetLabelKey(tok.tekst)]
    ELSE name_mapping[NormalizeName(tok.tekst)]

\* [T+n] and [T-n]
TLabel(delta) ==
    <<"[T", IF delta >= 0 THEN "+" ELSE "-", ToString(Abs(delta)), "]">>

\* the text of the last document with every date labelled against ref
TegenReferentie(ref) ==
    Opmaak(document,
        [i \in 1..Len(document) |->
            LET tok == document[i]
            IN  IF tok.soort = "naam" THEN NaamUitRegister(tok)
                ELSE IF tok.soort = "nummer"
                THEN IF IsApp /\ ~ElfProef(tok.tekst) THEN Romp(tok) ELSE <<"[BSN]">>
                ELSE IF IsApp
                THEN IF ParseDatum(tok) = Geen THEN Romp(tok)
                     ELSE IF ~gebruik_relatieve_datums \/ ref = Geen THEN <<"[DATUM]">>
                     ELSE RelatiefLabel(DagenTussen(ParseDatum(tok), ref))
                ELSE IF tok.voor = "geb." THEN <<"[GEBOORTEDATUM]">>
                     ELSE IF ~GeldigeDatum(tok.jaar, tok.maand, tok.dag) THEN Romp(tok)
                     ELSE IF ref = Geen THEN <<"[DATUM]">>
                     ELSE TLabel(DagenTussen(Datum(tok.jaar, tok.maand, tok.dag), ref))])

EersteOngevalDatum(doc) ==
    LET treffers == { i \in 1..Len(doc) : doc[i].soort = "datum" /\ doc[i].voor = "ongeval" }
    IN  IF treffers = {} THEN Geen
        ELSE LET tok == doc[CHOOSE i \in treffers : \A j \in treffers : i <= j]
             IN  IF GeldigeDatum(tok.jaar, tok.maand, tok.dag)
                 THEN Datum(tok.jaar, tok.maand, tok.dag) ELSE Geen

\* the dates _detecteer_datums parses from a document, in the order of the text
GeparsteDatums(doc) ==
    LET treffers == SelectSeq(doc, LAMBDA tok : tok.soort = "datum" /\ ParseDatum(tok) # Geen)
    IN  [i \in 1..Len(treffers) |-> ParseDatum(treffers[i])]

C10_GeboortedatumVast ==
    (/\ runs > 0
     /\ \A i \in 1..Len(document) :
           document[i].voor = "geb." =>
               GeldigeDatum(document[i].jaar, document[i].maand, document[i].dag)) =>
        /\ \A p \in 1..Len(uitvoer) :
              uitvoer[p] = "geb." =>
                  /\ p + 2 <= Len(uitvoer)
                  /\ uitvoer[p + 1] = " "
                  /\ uitvoer[p + 2] = "[GEBOORTEDATUM]"
        /\ Cardinality({ p \in 1..Len(uitvoer) : uitvoer[p] = "geb." })
              = Cardinality({ i \in 1..Len(document) : document[i].voor = "geb." })


\* the warning that relative conversion was skipped is in the warning list
Gewaarschuwd ==
    IF IsApp THEN waarschuwingen # <<>>
    ELSE \E i \in 1..Len(warnings) : warnings[i] = GeenOngevalsdatum

\* C11: when a call ends without a reference date, every date it replaced reads
\* [DATUM] and its warning list holds the warning that relative conversion was
\* skipped; when it ends with one, the list does not hold that warning.
C11_GeenReferentieTerugval ==
    runs > 0 =>
        IF GebruikteReferentie = Geen
        THEN Gewaarschuwd /\ uitvoer = TegenReferentie(Geen)
        ELSE ~Gewaarschuwd


\* the offsets at which stuk stands in the text t
Voorkomens(t, stuk) ==
    { p \in 0..(Len(t) - Len(stuk)) : SubSeq(t, p + 1, p + Len(stuk)) = stuk }

\* a numeric date that is no calendar date, or nine digits that fail the 11-check
Misvormd(tok) ==
    \/ tok.soort = "datum" /\ ~GeldigeDatum(tok.jaar, tok.maand, tok.dag)
    \/ tok.soort = "nummer" /\ ~ElfProef(tok.tekst)

\* C12: a call on any document returns a text in which every numeric date
\* that is no calendar date, and every nine-digit number that fails the
\* 11-check, stands unchanged: as often as in the document, no label in its
\* place.
C12_MisvormdOngemoeid ==
    runs > 0 =>
        \A i \in 1..Len(document) :
            Misvormd(document[i]) =>
                Cardinality(Voorkomens(uitvoer, Romp(document[i])))
                    = Cardinality({ j \in 1..Len(document) :
                                      Romp(document[j]) = Romp(document[i]) })


\* the registry of the engine object
Register == IF IsApp THEN naam_mapping ELSE name_mapping

\* C13: in a document that mentions a name as it is normally written and
\* once more, in whatever capitalisation, every mention is replaced, and by
\* the one label the registry holds for the name ("Aaa Aaa; aaa aaa" gives
\* the same label twice).
C13_EenLabelPerNaam ==
    (/\ runs > 0
     /\ \A k \in 1..Len(document) : document[k].soort = "naam"
     /\ \E i, j \in 1..Len(document) :
           /\ i # j /\ document[i].tekst \in RunNamen
           /\ SpecSleutel(document[i].tekst) = SpecSleutel(document[j].tekst)) =>
        /\ \A k \in 1..Len(document) : SpecSleutel(document[k].tekst) \in DOMAIN Register
        /\ uitvoer = Opmaak(document,
                            [k \in 1..Len(document) |-> Register[SpecSleutel(document[k].tekst)]])


\* the candidates in the order "ascending start, for equal starts longest
\* first", candidates equal in both keeping the order they were collected in
Geordend(kand) ==
    LET n == Len(kand)
        p == CHOOSE q \in [1..n -> 1..n] :
                \A a, b \in 1..n :
                    a < b =>
                        LET x == kand[q[a]]
                            y == kand[q[b]]
                        IN  \/ Start(x) < Start(y)
                            \/ /\ Start(x) = Start(y)
                               /\ Eind(x) - Start(x) > Eind(y) - Start(y)
                            \/ /\ Start(x) = Start(y)
                               /\ Eind(x) = Eind(y)
                               /\ q[a] < q[b]
    IN  [k \in 1..n |-> kand[p[k]]]

\* the end of the accepted span nearest before position k, -1 when there is none
Cursor(volg, I, k) ==
    LET eerder == { j \in I : j < k }
    IN  IF eerder = {} THEN -1
        ELSE Eind(volg[CHOOSE j \in eerder : \A h \in eerder : h <= j])

\* the positions a walk with that cursor accepts
Aanvaard(volg) ==
    CHOOSE I \in SUBSET (1..Len(volg)) :
        \A k \in 1..Len(volg) : k \in I <=> Start(volg[k]) >= Cursor(volg, I, k)

\* C14: the spans the resolver accepts are exactly those of the walk over the
\* candidates ordered by ascending start and longest first with a cursor that
\* begins before position 0 and moves to the end of each accepted span; a
\* candidate sharing its start with an accepted span is never longer than it,
\* and a candidate is dropped iff it starts before the end of the span
\* accepted last before it.
C14_ResolverProcedure ==
    [][(res_pc = "verzamel" /\ res_pc' = "klaar") =>
          LET volg == Geordend(alle_vervangingen)
              I == Aanvaard(volg)
          IN  /\ { gefilterd'[k] : k \in 1..Len(gefilterd') } = { volg[k] : k \in I }
              /\ Len(gefilterd') = Cardinality(I)
              /\ \A g \in 1..Len(gefilterd') : \A c \in 1..Len(alle_vervangingen) :
                    Start(alle_vervangingen[c]) = Start(gefilterd'[g])
                        => Eind(alle_vervangingen[c]) <= Eind(gefilterd'[g])
              /\ \A k \in 1..Len(volg) :
                    k \notin I <=> Start(volg[k]) < Cursor(volg, I, k)]_vars

\* two candidates with the same start and different lengths were collected,
\* the longer one was accepted and at least one candidate was dropped
C14_Witness ==
    /\ res_pc = "klaar"
    /\ Len(gefilterd) < Len(alle_vervangingen)
    /\ \E i, j \in 1..Len(alle_vervangingen) : \E g \in 1..Len(gefilterd) :
          /\ Start(alle_vervangingen[i]) = Start(alle_vervangingen[j])
          /\ Eind(alle_vervangingen[i]) < Eind(alle_vervangingen[j])
          /\ gefilterd[g] = alle_vervangingen[j]


\* C15: the labels written into the output do not depend on the order in
\* which the word lists are iterated: the first run of a fresh
\* Pseudonimiseerder gives, for the same document, the same output under
\* every iteration order of the set of first names.
C15_VolgordeOnafhankelijk ==
    (IsApp /\ runs = 1) =>
        \A v \in SetVolgordes :
            PseudonimiseerOp(bij_start, document, v).resultaat = uitvoer


\* what position p of the original text contributes to the substituted text:
\* the label where an accepted span starts, nothing inside a span, else itself
Bijdrage(t, spans, p) ==
    IF \E g \in 1..Len(spans) : Start(spans[g]) = p - 1
    THEN Label(spans[CHOOSE g \in 1..Len(spans) : Start(spans[g]) = p - 1])
    ELSE IF \E g \in 1..Len(spans) : Start(spans[g]) < p - 1 /\ p - 1 < Eind(spans[g])
         THEN <<>>
         ELSE <<t[p]>>

RECURSIVE VanLinksNaarRechts(_, _, _)
VanLinksNaarRechts(t, spans, p) ==
    IF p > Len(t) THEN <<>>
    ELSE Bijdrage(t, spans, p) \o VanLinksNaarRechts(t, spans, p + 1)

\* C16: the accepted spans are applied in descending start order; the result
\* is the original text with each accepted span replaced by its label and
\* every other character unchanged and in place; when a span is applied, the
\* text up to its end is still the original text, so its offsets are valid.
C16_Substitutie ==
    res_pc = "klaar" =>
        /\ \A g \in 1..(Len(gefilterd) - 1) :
              Start(gefilterd[g]) > Start(gefilterd[g + 1])
        /\ resultaat = VanLinksNaarRechts(tekst, gefilterd, 1)
        /\ \A g \in 1..Len(gefilterd) :
              LET tussen == VoerUit(tekst, SubSeq(gefilterd, 1, g - 1))
              IN  SubSeq(tussen, 1, Eind(gefilterd[g]))
                      = SubSeq(tekst, 1, Eind(gefilterd[g]))

\* two spans were replaced, one of them by a label of another length
C16_Witness ==
    /\ res_pc = "klaar"
    /\ Len(gefilterd) >= 2
    /\ \E g \in 1..Len(gefilterd) :
          Len(Label(gefilterd[g])) # Eind(gefilterd[g]) - Start(gefilterd[g])
    /\ \E p \in 1..Len(tekst) : Bijdrage(tekst, gefilterd, p) = <<tekst[p]>>


\* the detector calls of the last run, in the order they were made
Stappen ==
    IF IsApp THEN PseudonimiseerOp(bij_start, document, set_volgorde).stappen
    ELSE PseudonymizeOp(bij_start, document).stappen

\* C17: every detector of a run scans the full, unmodified original text; no
\* detector is handed text into which another detector's label was already
\* written.
C17_ScantOrigineel ==
    runs > 0 =>
        \A k \in 1..Len(Stappen) : Stappen[k].gescand = TekstVan(document)


\* the classes of the prescribed order a detector call belongs to:
\* 1 identifiers, 2 contact, 3 location, 4 names, 5 generic dates
\* (_detecteer_contact looks for BSN, IBAN, patient numbers and phone numbers)
Groepen(detector) ==
    CASE detector \in {"_replace_birth_dates", "_replace_bsn", "_replace_iban",
                       "_replace_patient_ids", "_replace_policy_numbers",
                       "_replace_kvk"} -> {1}
      [] detector \in {"EMAIL", "_replace_email", "_replace_phone_numbers"} -> {2}
      [] detector = "_detecteer_contact" -> {1, 2}
      [] detector \in {"_detecteer_locaties", "_detecteer_adressen",
                       "_replace_addresses", "_replace_postal_codes"} -> {3}
      [] detector \in {"_detecteer_namen", "_replace_names"} -> {4}
      [] detector \in {"_detecteer_datums", "_replace_dates"} -> {5}

\* C18: in every run the detectors execute in the order identifiers, contact,
\* location, names, generic dates: no detector runs before a detector of an
\* earlier class, so the name detector never precedes a location detector and
\* the generic-date detector comes after all the others.
C18_VasteVolgorde ==
    runs > 0 =>
        \A i, j \in 1..Len(Stappen) :
            i < j =>
                \A a \in Groepen(Stappen[i].detector) :
                    \A b \in Groepen(Stappen[j].detector) : a <= b


\* C19: while the detectors of a Pseudonimiseerder run scan the text, none of
\* them writes the name registry, a label counter, the list of collected
\* dates or the reference date: after each detector call these fields are
\* what they were before it.
C19_DetectorenSchrijvenNiet ==
    (IsApp /\ runs > 0) =>
        \A k \in 1..Len(Stappen) : Stappen[k].na = Stappen[k].voor


\* C20: the phone detector returns no phone span that shares a character
\* with a national-ID span or with another phone span of the same call.
C20_TelefoonOverlaptNiet ==
    \A i, j \in 1..Len(alle_vervangingen) :
        (/\ i # j
         /\ Label(alle_vervangingen[i]) = <<"[TELEFOON]">>
         /\ Label(alle_vervangingen[j]) \in { <<"[BSN]">>, <<"[TELEFOON]">> })
            => ~Overlap(alle_vervangingen[i], alle_vervangingen[j])


\* the calendar day after d
VolgendeDag(d) ==
    IF d.dag < DagenInMaand(d.jaar, d.maand) THEN [d EXCEPT !.dag = @ + 1]
    ELSE IF d.maand < 12 THEN Datum(d.jaar, d.maand + 1, 1)
    ELSE Datum(d.jaar + 1, 1, 1)

\* the day n days after d
RECURSIVE DagenLater(_, _)
DagenLater(d, n) == IF n = 0 THEN d ELSE DagenLater(VolgendeDag(d), n - 1)

\* the label the day and week bands prescribe for a difference of n days,
\* 1 <= n <= 27: the whole number of weeks nearest to n / 7 from 14 days on
DagWeekLabel(teken, n) ==
    IF n = 1 THEN <<"[", teken, "1", " ", "dag", "]">>
    ELSE IF n <= 6 THEN <<"[", teken, ToString(n), " ", "dagen", "]">>
    ELSE IF n <= 13 THEN <<"[", teken, "1", " ", "week", "]">>
    ELSE LET w == CHOOSE k \in 2..4 : 2 * Abs(7 * k - n) < 7
         IN  <<"[", teken, ToString(w), " ", "weken", "]">>

\* C21: for a date n days after (before) the reference date, 1 <= n <= 27,
\* the label is '+' ('-') followed by: 1 dag for n = 1, n dagen for 2..6,
\* 1 week for 7..13, and for 14..27 the number of weeks nearest to n / 7,
\* which lies between 2 and 4 (reference 2022-06-14: 2022-06-10 gives
\* '-4 dagen', 2022-06-21 gives '+1 week').
C21_DagEnWeekBanden ==
    datum_label # <<>> =>
        /\ \A n \in 1..27 :
              /\ datum_arg = DagenLater(referentie_datum, n)
                    => datum_label[1] = DagWeekLabel("+", n)
              /\ referentie_datum = DagenLater(datum_arg, n)
                    => datum_label[1] = DagWeekLabel("-", n)
        /\ (referentie_datum = Datum(2022, 6, 14) /\ datum_arg = Datum(2022, 6, 21))
              => datum_label[1] = <<"[", "+", "1", " ", "week", "]">>
        /\ (referentie_datum = Datum(2022, 6, 14) /\ datum_arg = Datum(2022, 6, 10))
              => datum_label[1] = <<"[", "-", "4", " ", "dagen", "]">>

\* 27 days after the reference date: the top of the week band, 4 weeks
C21_Witness ==
    /\ referentie_datum = Datum(2022, 6, 14)
    /\ datum_arg = Datum(2022, 7, 11)
    /\ datum_label = << <<"[", "+", "4", " ", "weken", "]">> >>


\* the number of days from a to b, a not after b, counted month by month
RECURSIVE DagenTot(_, _)
DagenTot(a, b) ==
    IF a.jaar = b.jaar /\ a.maand = b.maand THEN b.dag - a.dag
    ELSE DagenInMaand(a.jaar, a.maand) - a.dag + 1
         + DagenTot(IF a.maand < 12 THEN Datum(a.jaar, a.maand + 1, 1)
                    ELSE Datum(a.jaar + 1, 1, 1), b)

\* |delta| and the sign of the label of the call recorded in the state
Afstand ==
    IF Na(referentie_datum, datum_arg) THEN DagenTot(datum_arg, referentie_datum)
    ELSE DagenTot(referentie_datum, datum_arg)

LabelTeken == IF Na(datum_arg, referentie_datum) THEN "+" ELSE "-"

\* C22: for 28 <= |delta| <= 364 the label is a month count m nearest to
\* |delta| / 30, with m 1 or 2 for 28..59 and between 2 and 11 for 60..364;
\* a delta of 183 days gives 6 months.
C22_MaandBanden ==
    (datum_label # <<>> /\ 28 <= Afstand /\ Afstand <= 364) =>
        /\ \E m \in (IF Afstand <= 59 THEN 1..2 ELSE 2..11) :
              /\ 2 * Abs(30 * m - Afstand) <= 30
              /\ datum_label[1] = <<"[", LabelTeken, ToString(m), " ",
                                    IF m = 1 THEN "maand" ELSE "maanden", "]">>
        /\ Afstand = 183 => datum_label[1] = <<"[", LabelTeken, "6", " ", "maanden", "]">>


\* C23: for 365 <= |delta| <= 729, with m the remainder |delta| mod 365
\* rounded to the nearest month of 30 days, the label is '1 jaar' when
\* m < 2 and '1 jaar, m mnd' otherwise, and then m is between 2 and 11
\* (reference 2022-06-14: 2021-06-14 gives '-1 jaar').
C23_EenTotTweeJaar ==
    (datum_label # <<>> /\ 365 <= Afstand /\ Afstand <= 729) =>
        /\ \E m \in 0..12 :
              /\ 2 * Abs(30 * m - (Afstand - 365)) <= 30
              /\ IF m < 2
                 THEN datum_label[1] = <<"[", LabelTeken, "1", " ", "jaar", "]">>
                 ELSE /\ m <= 11
                      /\ datum_label[1] = <<"[", LabelTeken, "1", " ", "jaar", ", ",
                                            ToString(m), " ", "mnd", "]">>
        /\ (referentie_datum = Datum(2022, 6, 14) /\ datum_arg = Datum(2021, 6, 14))
              => datum_label[1] = <<"[", "-", "1", " ", "jaar", "]">>


\* C24: for |delta| >= 730 the label is the sign and |delta| / 365 rounded to
\* one decimal, written without the decimal part when it is integral (730
\* days give '2 jaar'); the magnitude is never below 2.
C24_MeerdereJaren ==
    (datum_label # <<>> /\ Afstand >= 730) =>
        /\ \E t \in 20..100 :
              /\ 2 * Abs(365 * t - 10 * Afstand) <= 365
              /\ datum_label[1] =
                    <<"[", LabelTeken,
                      IF t % 10 = 0 THEN ToString(t \div 10)
                      ELSE ToString(t \div 10) \o "." \o ToString(t % 10),
                      " ", "jaar", "]">>
        /\ Afstand = 730 => datum_label[1] = <<"[", LabelTeken, "2", " ", "jaar", "]">>

\* 14 June 2023 against the reference date 14 June 2021: 730 days, '+2 jaar'
C24_Witness ==
    /\ referentie_datum = Datum(2021, 6, 14)
    /\ datum_arg = Datum(2023, 6, 14)
    /\ Afstand = 730
    /\ datum_label = << <<"[", "+", "2", " ", "jaar", "]">> >>


\* the date a numeric D-M-Y string denotes under the year window: a two-digit
\* year below 50 lies in the 2000s, one from 50 on in the 1900s
Venster(tok) ==
    Datum(IF tok.jaar >= 100 THEN tok.jaar
          ELSE IF tok.jaar < 50 THEN 2000 + tok.jaar ELSE 1900 + tok.jaar,
          tok.maand, tok.dag)

\* C25: a numeric date with a day outside 1..31 or a month outside 1..12 is
\* not replaced, and a reference date that a call derives from its text is
\* the date one of the date strings of the text denotes under the year window
\* (yy < 50: 20yy, yy >= 50: 19yy), also when it is parsed as incident date.
C25_Jaarvenster ==
    runs > 0 =>
        /\ \A i \in 1..Len(document) :
              (/\ document[i].soort = "datum"
               /\ (document[i].dag \notin 1..31 \/ document[i].maand \notin 1..12))
                  => Cardinality(Voorkomens(uitvoer, Romp(document[i])))
                        = Cardinality({ j \in 1..Len(document) :
                                          Romp(document[j]) = Romp(document[i]) })
        /\ (IsApp /\ bij_start.referentie_datum = Geen
                  /\ bij_start.gevonden_datums = <<>> /\ referentie_datum # Geen)
              => \E i \in 1..Len(document) :
                    document[i].soort = "datum" /\ referentie_datum = Venster(document[i])
        /\ (~IsApp /\ bij_start.incident_date = Geen /\ incident_date # Geen)
              => \E i \in 1..Len(document) :
                    /\ document[i].soort = "datum" /\ document[i].voor = "ongeval"
                    /\ incident_date = Venster(document[i])


\* the reference-date field of the engine object
ReferentieVeld == IF IsApp THEN referentie_datum ELSE incident_date

\* C26: a reference date, once the object holds one (supplied or derived),
\* is not changed by anything a call does, and all date labels a call writes
\* are computed against the one reference date the call ends with.
C26_ReferentieOnveranderlijk ==
    [][/\ ReferentieVeld # Geen => ReferentieVeld' = ReferentieVeld
       /\ runs' > runs => uitvoer' = TegenReferentie(GebruikteReferentie)']_vars

\* a call on an object with the supplied reference date 14-6-2022 has
\* labelled an earlier and a later date, and the reference date is still the
\* supplied one
C26_Witness ==
    /\ runs > 0 /\ IsApp /\ gebruik_relatieve_datums
    /\ bij_start.referentie_datum = Meegegeven
    /\ referentie_datum = Meegegeven
    /\ document = <<DatumToken("", 10, 6, 2022), DatumToken("", 21, 6, 2022)>>
    /\ uitvoer = <<"[", "-", "4", " ", "dagen", "]", "; ", "[", "+", "1", " ", "week", "]">>


\* the statistics of the engine object, and the sum of all its counts
Statistiek == IF IsApp THEN statistieken ELSE statistics

RECURSIVE SomVan(_, _)
SomVan(f, sleutels) ==
    IF sleutels = {} THEN 0
    ELSE LET k == CHOOSE x \in sleutels : TRUE
         IN  f[k] + SomVan(f, sleutels \ {k})

NaamTokens(doc) == { i \in 1..Len(doc) : doc[i].soort = "naam" }

GeboorteTokens(doc) == { i \in 1..Len(doc) : doc[i].soort = "datum" /\ doc[i].voor = "geb." }

\* C27: after the first call on an object the statistics count every
\* replacement once, under the category of its detector: the names under the
\* name category, every replaced date (incident marker and relative labels
\* included) under the date category (the birth dates of MedicalPseudonymizer
\* under its birth-date category), and the counts sum to the number of
\* replacements.
C27_Statistieken ==
    runs = 1 =>
        /\ Statistiek[IF IsApp THEN "namen" ELSE "names"]
              = Cardinality(NaamTokens(document))
        /\ Statistiek[IF IsApp THEN "datums" ELSE "dates"]
              = Cardinality(Gelabeld(document))
        /\ ~IsApp => Statistiek["birth_dates"] = Cardinality(GeboorteTokens(document))
        /\ SomVan(Statistiek, DOMAIN Statistiek)
              = Cardinality(NaamTokens(document)) + Cardinality(Gelabeld(document))
                + (IF IsApp THEN 0 ELSE Cardinality(GeboorteTokens(document)))


\* part i of a text of parts joined by the separator
RECURSIVE DeelVan(_, _)
DeelVan(t, i) ==
    LET einde == IF \E p \in 1..Len(t) : <<t[p]>> = Scheiding
                 THEN CHOOSE p \in 1..Len(t) :
                        <<t[p]>> = Scheiding /\ \A q \in 1..(p - 1) : <<t[q]>> # Scheiding
                 ELSE Len(t) + 1
    IN  IF i = 1 THEN SubSeq(t, 1, einde - 1)
        ELSE DeelVan(SubSeq(t, einde + 1, Len(t)), i - 1)

\* the tokens in which an incident keyword introduces a date
TrefwoordDatums(doc) ==
    { i \in 1..Len(doc) : doc[i].soort = "datum" /\ doc[i].voor \in {"ongeval", "schade"} }

\* C28: when a MedicalPseudonymizer without incident date derives one from a
\* date that an incident keyword introduces, that occurrence of the date
\* stands in the output as [T+0] behind its keyword.
C28_IncidentDatumIsTNul ==
    (/\ ~IsApp /\ runs > 0
     /\ bij_start.incident_date = Geen /\ incident_date # Geen) =>
        /\ TrefwoordDatums(document) # {}
        /\ LET i == CHOOSE k \in TrefwoordDatums(document) :
                       \A j \in TrefwoordDatums(document) : k <= j
           IN  DeelVan(uitvoer, i) = <<document[i].voor, " ", "[T", "+", "0", "]">>


\* the text t holds the pieces of deel in a row
KomtVoor(t, deel) ==
    \E p \in 0..(Len(t) - Len(deel)) : SubSeq(t, p + 1, p + Len(deel)) = deel

\* the numbers n of the labels [NAAM_n] that stand in a text
NaamNummers(t) ==
    { n \in 1..(2 * MaxDocLen * MaxRuns) : KomtVoor(t, <<"[", "NAAM", "_", ToString(n), "]">>) }

\* C29: after the first run of a Pseudonimiseerder every label of its name
\* registry stands in the output, and the numbers of the name labels in the
\* output are 1..k without a gap.
C29_RegisterInUitvoer ==
    (IsApp /\ runs = 1) =>
        /\ \A key \in DOMAIN naam_mapping : KomtVoor(uitvoer, naam_mapping[key])
        /\ NaamNummers(uitvoer) = 1..Cardinality(NaamNummers(uitvoer))


\* position p of the text lies inside a span of the list
Gedekt(p, spans) ==
    \E j \in 1..Len(spans) : Start(spans[j]) <= p /\ p < Eind(spans[j])

\* C30: when the resolver is done, every position of the text that lies
\* inside a candidate span lies inside an accepted span.
C30_KandidatenGedekt ==
    res_pc = "klaar" =>
        \A i \in 1..Len(alle_vervangingen) :
            \A p \in Start(alle_vervangingen[i])..(Eind(alle_vervangingen[i]) - 1) :
                Gedekt(p, gefilterd)

============================================================================
